---- MODULE Spec2Model ----
(***************************************************************************)
(* Model of the real-time voice practice engine of praxtica-backend:       *)
(*   - LanguageService.completePracticeSession and its collaborators       *)
(*     (CefrAnalysisService, LanguageAnalyticsService, RedisStorageService)*)
(*   - RealtimePracticeGateway and OpenAIRealtimeService                   *)
(* Two specifications share the variables: CSpec drives the completion     *)
(* pipeline, GSpec drives the realtime gateway and relay.                  *)
(***************************************************************************)
EXTENDS Integers, Sequences, FiniteSets, TLC

VARIABLES
  \* ---- persisted user document (MongoDB) ----
  dbSessions,          \* user.practiceSessions, in array order
  dbCurrentLevel,      \* user.currentLevels.get(language): [level, source] or NoEntry
  dbLanguageTest,      \* user.languageTests.get(language): [level, score] or NoEntry
  \* ---- transient store (Redis lists, head = most recent lpush) ----
  redisMsgs,           \* session:<id>:messages
  redisAudio,          \* session:<id>:user_audio
  \* ---- LanguageService in-memory state ----
  conversationStates,  \* sessionId -> [present, processing, messages]
  sessionStreams,      \* set of session ids that have a Subject
  emitted,             \* sessionId -> sequence of event types pushed to stream/gateway
  analyzerCalls,       \* sessionId -> number of analyzeCefrLevel invocations
  calls,               \* completePracticeSession invocations: proc -> local state
  \* ---- OpenAIRealtimeService ----
  sessions,            \* sessions map: sessionId -> upstream socket (0 = no entry)
  ws,                  \* upstream sockets with the RealtimeSession object built around each
  \* ---- RealtimePracticeGateway ----
  sessionToSocketMap,  \* sessionId -> client socket
  socketToSessionMap,  \* client socket -> sessionId
  userAudioChunks,     \* sessionId -> accumulated chunk count
  speechStartTimes,    \* sessionId -> chunk index at speech start
  audioBuffer,         \* sessionId -> backup buffer {chunks, totalSize, startTime}
  tasks,               \* handlers suspended at an await, with what they captured
  reply,               \* client socket -> what the latest step sent to it
  gone,                \* client sockets whose disconnect has been handled
  chunksSeen,          \* number of audio chunks accepted so far (chunk ids)
  now,                 \* Date.now()
  lastTeardown,        \* history: <<socket, sessionId>> of the teardown that just finished
  proto,               \* upstream socket -> progress of the configuration and of the tutor reply
  sentUp,              \* messages the latest step sent upstream, in order
  dropped              \* history: session ids whose relay session got status disconnected or error

gvars == <<sessions, ws, sessionToSocketMap, socketToSessionMap, userAudioChunks,
           speechStartTimes, audioBuffer, tasks, reply, gone, chunksSeen, now, lastTeardown,
           proto, sentUp, dropped>>

\* the variables only the completion pipeline touches
ponly == <<dbSessions, dbCurrentLevel, dbLanguageTest, conversationStates,
           sessionStreams, emitted, analyzerCalls, calls>>

cvars == <<dbSessions, dbCurrentLevel, dbLanguageTest, redisMsgs, redisAudio,
           conversationStates, sessionStreams, emitted, analyzerCalls, calls>>

-----------------------------------------------------------------------------
(* Bounds *)

\* the HTTP requests that may run completePracticeSession, possibly overlapping
Procs == {"r1", "r2"}

-----------------------------------------------------------------------------
(* Generic helpers *)

NoLevel == "none"

NoEntry == [level |-> NoLevel, source |-> "none", score |-> 0]

RECURSIVE Reverse(_)
Reverse(s) == IF s = <<>> THEN <<>> ELSE Append(Reverse(Tail(s)), Head(s))

RECURSIVE SelectIdx(_, _, _)
\* index of the first element of s (from position i) with the given id, 0 if none
SelectIdx(s, id, i) ==
  IF i > Len(s) THEN 0
  ELSE IF s[i].id = id THEN i
  ELSE SelectIdx(s, id, i + 1)

CountId(s, id) == Cardinality({i \in 1..Len(s) : s[i].id = id})

\* JavaScript `a || b` on level values: the empty/absent level is falsy
OrElse(a, b) == IF a = NoLevel \/ a = "" THEN b ELSE a

-----------------------------------------------------------------------------
(* Session ids.  Ids are strings; Chars gives their characters so that      *)
(* String.prototype.includes can be computed.                               *)

ObjectIds == {"65f0a1"}                \* ids minted by startPracticeSession (hex)
ClientIds == {"cefr-test-1", "talk-7"} \* ids chosen by the frontend
SessionIds == ObjectIds \cup ClientIds

Chars(id) ==
  CASE id = "65f0a1"      -> <<"6","5","f","0","a","1">>
    [] id = "cefr-test-1" -> <<"c","e","f","r","-","t","e","s","t","-","1">>
    [] id = "talk-7"      -> <<"t","a","l","k","-","7">>
    [] id = "cefr-test"   -> <<"c","e","f","r","-","t","e","s","t">>
    [] id = "test"        -> <<"t","e","s","t">>
    [] OTHER              -> <<>>

\* haystack.includes(needle) on character sequences
Includes(hay, needle) ==
  \E i \in 1..(Len(hay) - Len(needle) + 1) :
     \A j \in 1..Len(needle) : hay[i + j - 1] = needle[j]

\* language.service.ts:437
IsCefrTest(sessionId) ==
  Includes(Chars(sessionId), Chars("cefr-test")) \/ Includes(Chars(sessionId), Chars("test"))

-----------------------------------------------------------------------------
(* CEFR levels and level extraction from tutor text *)

cefrOrder == <<"A1", "A2", "B1", "B2", "C1", "C2">>

CefrLevels == {cefrOrder[i] : i \in 1..Len(cefrOrder)}

\* texts are sequences of word tokens; case folding is a table on tokens
LowerTok(t) ==
  CASE t = "A1" -> "a1" [] t = "A2" -> "a2" [] t = "B1" -> "b1"
    [] t = "B2" -> "b2" [] t = "C1" -> "c1" [] t = "C2" -> "c2"
    [] t = "D1" -> "d1" [] t = "Your" -> "your" [] t = "English" -> "english"
    [] OTHER -> t

UpperTok(t) ==
  CASE t = "a1" -> "A1" [] t = "a2" -> "A2" [] t = "b1" -> "B1"
    [] t = "b2" -> "B2" [] t = "c1" -> "C1" [] t = "c2" -> "C2"
    [] t = "d1" -> "D1"
    [] OTHER -> t

\* the capture group ([ABC][12]) under the /i flag
LevelToks == {"a1", "a2", "b1", "b2", "c1", "c2"}

\* cefr-analysis.service.ts:34-44, in source order; cap = position of the capture
patterns == <<
  [elems |-> <<{"i"}, {"believe"}, {"you"}, {"have"}, {"a", "an"}, LevelToks, {"level"}>>, cap |-> 6],
  [elems |-> <<{"your"}, {"level"}, {"is"}, LevelToks>>, cap |-> 4],
  [elems |-> <<{"you"}, {"are"}, {"at"}, {"a", "an"}, LevelToks, {"level"}>>, cap |-> 5],
  [elems |-> <<LevelToks, {"level"}, {"in"}, {"english", "spanish"}>>, cap |-> 1],
  [elems |-> <<{"determined"}, {"to"}, {"be"}, LevelToks>>, cap |-> 4],
  [elems |-> <<{"assess"}, {"you"}, {"as"}, LevelToks>>, cap |-> 4],
  [elems |-> <<{"place"}, {"you"}, {"at"}, LevelToks>>, cap |-> 4],
  [elems |-> <<{"creo"}, {"que"}, {"tienes"}, {"un"}, {"nivel"}, LevelToks>>, cap |-> 6],
  [elems |-> <<{"tu"}, {"nivel"}, {"es"}, LevelToks>>, cap |-> 4] >>

MatchAt(text, pat, i) ==
  /\ i + Len(pat.elems) - 1 <= Len(text)
  /\ \A j \in 1..Len(pat.elems) : LowerTok(text[i + j - 1]) \in pat.elems[j]

\* String.prototype.match: leftmost match, 0 if none
FirstMatch(text, pat) ==
  LET hits == {i \in 1..Len(text) : MatchAt(text, pat, i)}
  IN IF hits = {} THEN 0 ELSE CHOOSE i \in hits : \A k \in hits : i <= k

RECURSIVE ExtractFrom(_, _)
ExtractFrom(text, k) ==
  IF k > Len(patterns) THEN NoLevel
  ELSE LET m == FirstMatch(text, patterns[k])
       IN IF m # 0 /\ UpperTok(LowerTok(text[m + patterns[k].cap - 1])) \in CefrLevels
          THEN UpperTok(LowerTok(text[m + patterns[k].cap - 1]))
          ELSE ExtractFrom(text, k + 1)

\* cefr-analysis.service.ts:30-60
extractCefrLevelFromResponse(responseText) ==
  IF responseText = <<>> THEN NoLevel ELSE ExtractFrom(responseText, 1)

RECURSIVE FirstExtracted(_)
\* language.service.ts:461-469: first assistant message that yields a level
FirstExtracted(msgs) ==
  IF msgs = <<>> THEN NoLevel
  ELSE IF Head(msgs).role = "assistant"
          /\ extractCefrLevelFromResponse(Head(msgs).text) # NoLevel
       THEN extractCefrLevelFromResponse(Head(msgs).text)
       ELSE FirstExtracted(Tail(msgs))

-----------------------------------------------------------------------------
(* Feedback scores, the proficiency analyzer and the analytics service *)

Scores(a, b, c, d) == [pronunciation |-> a, grammar |-> b, vocabulary |-> c, fluency |-> d]

ScoreSum(f) == f.pronunciation + f.grammar + f.vocabulary + f.fluency

\* what the scoring model can answer: a request/parse error, or a JSON object
\* whose level may be missing ("") or outside the scale and whose scores may be 0
ModelOutcomes ==
  {[kind |-> "error", level |-> "", scores |-> Scores(0, 0, 0, 0)]}
  \cup {[kind |-> "json", level |-> "", scores |-> Scores(0, 0, 0, 0)],
        [kind |-> "json", level |-> "C1", scores |-> Scores(90, 90, 90, 90)],
        [kind |-> "json", level |-> "B3", scores |-> Scores(40, 30, 50, 60)]}

\* JavaScript `score || 50`
ScoreOr50(x) == IF x = 0 THEN 50 ELSE x

\* cefr-analysis.service.ts:271-308
mapToFeedbackStructure(f) ==
  Scores(ScoreOr50(f.pronunciation), ScoreOr50(f.grammar),
         ScoreOr50(f.vocabulary), ScoreOr50(f.fluency))

\* a fallback that scores nothing
UnscoredFeedback == Scores(0, 0, 0, 0)

\* cefr-analysis.service.ts:310-336
createFallbackFeedback == Scores(50, 50, 50, 50)

\* cefr-analysis.service.ts:84-167.  confidence is in tenths.
analyzeCefrLevel(outcome) ==
  IF outcome.kind = "json"
  THEN [threw |-> FALSE, level |-> OrElse(outcome.level, "A1"),
        feedback |-> mapToFeedbackStructure(outcome.scores), confidence |-> 5]
  ELSE [threw |-> FALSE, level |-> "A1",
        feedback |-> createFallbackFeedback, confidence |-> 1]

\* language-analytics.service.ts:70-97
createInitialFeedback == Scores(0, 0, 0, 0)

IndexOf(level) ==
  IF level \in CefrLevels THEN (CHOOSE i \in 1..Len(cefrOrder) : cefrOrder[i] = level) - 1
  ELSE -1

\* language-analytics.service.ts:182-194; averageScore is kept as the sum of
\* the four scores, so the thresholds 85 and 45 become 340 and 180
recommendLevel(currentLevel, scoreSum) ==
  LET index == IndexOf(currentLevel)
  IN IF scoreSum >= 4 * 85 /\ index < Len(cefrOrder) - 1 THEN cefrOrder[index + 2]
     ELSE IF scoreSum <= 4 * 45 /\ index > 0 THEN cefrOrder[index]
     ELSE currentLevel

NoFeedback == [present |-> FALSE, scores |-> Scores(0, 0, 0, 0)]

\* language-analytics.service.ts:99-140
analyzeCompletion(dto) ==
  LET feedback == IF dto.feedback.present THEN dto.feedback.scores ELSE createInitialFeedback
  IN [feedback |-> feedback,
      metrics |-> [scoreSum |-> ScoreSum(feedback),
                   recommendedLevel |-> recommendLevel(dto.level, ScoreSum(feedback))]]

-----------------------------------------------------------------------------
(* Inputs of the completion pipeline *)

Msg(role, text) == [role |-> role, text |-> text]

\* transcripts in chronological order
Transcripts == {
  <<>>,
  << Msg("user", <<"hello">>), Msg("assistant", <<"hello", "welcome">>) >>,
  << Msg("user", <<"hello">>), Msg("assistant", <<"Your", "level", "is", "C1">>) >>,
  << Msg("assistant", <<"i", "believe", "you", "have", "a", "b2", "level">>),
     Msg("assistant", <<"your", "level", "is", "A2">>) >>,
  << Msg("assistant", <<"your", "level", "is", "D1">>) >>,
  << Msg("user", <<"your", "level", "is", "C2">>) >> }

\* redis.lpush: newest at the head
LPush(list, x) == <<x>> \o list

RECURSIVE LPushAll(_, _)
LPushAll(list, xs) == IF xs = <<>> THEN list ELSE LPushAll(LPush(list, Head(xs)), Tail(xs))

\* language.module.ts:161-179: lrange 0 -1, then reverse into chronological order
getSessionMessages(sessionId) == Reverse(redisMsgs[sessionId])

Dtos == {[level |-> NoLevel, feedback |-> NoFeedback],
         [level |-> "B1", feedback |-> NoFeedback],
         [level |-> "C2", feedback |-> [present |-> TRUE, scores |-> Scores(80, 80, 80, 80)]]}

StartLevels == {"A2"}

PracticeRecord(id, level) ==
  [id |-> id, level |-> level, completed |-> FALSE, scores |-> createInitialFeedback]

NoRecord == PracticeRecord("", NoLevel)

NoCefr == [present |-> FALSE, level |-> NoLevel, feedback |-> Scores(0, 0, 0, 0)]

NoMetrics == [scoreSum |-> 0, recommendedLevel |-> NoLevel]

IdleCall ==
  [pc |-> "idle", sid |-> "", dto |-> [level |-> NoLevel, feedback |-> NoFeedback],
   sessions |-> <<>>, currentLevel |-> NoEntry, languageTest |-> NoEntry,
   idx |-> 0, synthesized |-> FALSE, session |-> NoRecord, messages |-> <<>>,
   extracted |-> NoLevel, original |-> NoLevel, cefr |-> NoCefr, outcome |-> "none",
   metrics |-> NoMetrics, finalLevel |-> NoLevel, result |-> "none"]

-----------------------------------------------------------------------------
(* LanguageService: session start, stream helpers *)

\* language.service.ts:704-709 and 687-694
emitRealtimeEvent(streams, sessionId) == streams \cup {sessionId}

\* language.service.ts:696-702
completeRealtimeStream(streams, sessionId) == streams \ {sessionId}

\* language.service.ts:160-222.  The id is a fresh ObjectId.
StartPracticeSession(sid, level) ==
  /\ sid \in ObjectIds
  /\ CountId(dbSessions, sid) = 0
  /\ \A p \in Procs : calls[p].pc = "idle"
  /\ dbSessions' = Append(dbSessions, PracticeRecord(sid, level))
  /\ conversationStates' = [conversationStates EXCEPT ![sid] = [present |-> TRUE, processing |-> FALSE,
                                 messages |-> <<"system">>]]
  /\ sessionStreams' = emitRealtimeEvent(sessionStreams, sid)
  /\ emitted' = [emitted EXCEPT ![sid] = Append(@, "session.started")]
  /\ UNCHANGED <<dbCurrentLevel, dbLanguageTest, redisMsgs, redisAudio, analyzerCalls, calls>>

-----------------------------------------------------------------------------
(* LanguageService.completePracticeSession, one action per await boundary *)

\* language.service.ts:373-378: the request arrives and ensureUser loads the document
CompleteBegin(p, sid, dto) ==
  /\ calls[p].pc = "idle"
  \* requests are named in arrival order; r2 repeats r1's request
  /\ p = "r2" => calls["r1"].pc # "idle" /\ sid = calls["r1"].sid /\ dto = calls["r1"].dto
  /\ calls' = [calls EXCEPT ![p] =
       [IdleCall EXCEPT !.pc = "loaded", !.sid = sid, !.dto = dto,
                        !.sessions = dbSessions, !.currentLevel = dbCurrentLevel,
                        !.languageTest = dbLanguageTest]]
  /\ UNCHANGED <<dbSessions, dbCurrentLevel, dbLanguageTest, redisMsgs, redisAudio,
                 conversationStates, sessionStreams, emitted, analyzerCalls>>

\* language.service.ts:380-429: find the record or synthesize and push it, then
\* read the transcript.  A found record is the sub-document itself (idx > 0); a
\* synthesized one is a plain object that the array push copies.
CompleteFind(p) ==
  LET c == calls[p]
      found == SelectIdx(c.sessions, c.sid, 1)
      fresh == PracticeRecord(c.sid, OrElse(c.dto.level, "A1"))
  IN /\ c.pc = "loaded"
     /\ calls' = [calls EXCEPT ![p] =
          [c EXCEPT !.pc = "messages",
                    !.idx = found,
                    !.synthesized = (found = 0),
                    !.session = IF found # 0 THEN c.sessions[found] ELSE fresh,
                    !.sessions = IF found # 0 THEN c.sessions ELSE Append(c.sessions, fresh),
                    !.messages = getSessionMessages(c.sid)]]
     /\ UNCHANGED <<dbSessions, dbCurrentLevel, dbLanguageTest, redisMsgs, redisAudio,
                    conversationStates, sessionStreams, emitted, analyzerCalls>>

\* language.service.ts:488-500 / 503-514: the placement-test branch
TestBranch(session, r, extracted, original) ==
  IF ~r.threw
  THEN [session EXCEPT !.level = OrElse(extracted, OrElse(r.level, original)),
                       !.scores = r.feedback]
  ELSE [session EXCEPT !.level = OrElse(extracted, original)]

\* language.service.ts:515-540: free practice with a transcript
PracticeBranch(session, r, dto, original) ==
  IF ~r.threw
  THEN [session EXCEPT !.scores = r.feedback]
  ELSE [session EXCEPT !.level = original,
                       !.scores = IF dto.feedback.present
                                  THEN analyzeCompletion(dto).feedback ELSE @]

\* language.service.ts:541-548: no transcript
EmptyBranch(session, dto, extracted, original) ==
  [session EXCEPT !.level = OrElse(extracted, original),
                  !.scores = IF dto.feedback.present
                             THEN analyzeCompletion(dto).feedback ELSE @]

\* language.service.ts:550-576
CompletionMetrics(session, dto, cefr, dtoAnalyticsSet) ==
  IF dtoAnalyticsSet THEN analyzeCompletion(dto).metrics
  ELSE IF cefr.present
       THEN [scoreSum |-> ScoreSum(cefr.feedback), recommendedLevel |-> cefr.level]
       ELSE analyzeCompletion([dto EXCEPT !.level = OrElse(session.level, "A1")]).metrics

\* language.service.ts:436-579: level candidates, analysis, metrics, completed flag
CompleteAnalyze(p, outcome) ==
  LET c == calls[p]
      isCefrTest == IsCefrTest(c.sid)
      original == OrElse(c.dto.level, c.session.level)
      extracted == FirstExtracted(c.messages)
      runs == c.messages # <<>>
      r == analyzeCefrLevel(outcome)
      cefr == IF runs /\ ~r.threw
              THEN [present |-> TRUE, level |-> r.level, feedback |-> r.feedback]
              ELSE NoCefr
      s1 == IF isCefrTest /\ runs THEN TestBranch(c.session, r, extracted, original)
            ELSE IF runs THEN PracticeBranch(c.session, r, c.dto, original)
            ELSE EmptyBranch(c.session, c.dto, extracted, original)
      dtoAnalytics == c.dto.feedback.present
                      /\ (~runs \/ (~isCefrTest /\ r.threw))
  IN /\ c.pc = "messages"
     /\ runs \/ outcome.kind = "error"   \* the outcome matters only when the analyzer runs
     /\ analyzerCalls' = IF runs THEN [analyzerCalls EXCEPT ![c.sid] = @ + 1] ELSE analyzerCalls
     /\ calls' = [calls EXCEPT ![p] =
          [c EXCEPT !.pc = "analysed",
                    !.extracted = extracted,
                    !.original = original,
                    !.cefr = cefr,
                    !.outcome = IF runs THEN outcome.kind ELSE "none",
                    !.metrics = CompletionMetrics(s1, c.dto, cefr, dtoAnalytics),
                    !.session = [s1 EXCEPT !.completed = TRUE]]]
     /\ UNCHANGED <<dbSessions, dbCurrentLevel, dbLanguageTest, redisMsgs, redisAudio,
                    conversationStates, sessionStreams, emitted>>

\* a document store that accepts any level
AnyLevel(level) == TRUE

\* the enum validator of the level paths (enum: CEFR_LEVELS)
OnScale(level) == level \in CefrLevels

\* schema validation run by user.save(): level must be in CEFR_LEVELS
ValidRecord(rec) == OnScale(rec.level)

\* language.service.ts:614-659: test result, second push, current level, save.
\* saveOk = FALSE is a failed write (validation, version conflict, store down).
CompleteSave(p, saveOk) ==
  LET c == calls[p]
      finalLevel == OrElse(c.extracted, OrElse(c.cefr.level, c.original))
      inPlace == IF c.idx # 0 THEN [c.sessions EXCEPT ![c.idx] = c.session] ELSE c.sessions
      sessions2 == Append(inPlace, c.session)
      test2 == IF IsCefrTest(c.sid) /\ c.cefr.present
               THEN [level |-> finalLevel, source |-> "test", score |-> c.metrics.scoreSum]
               ELSE c.languageTest
      level2 == [level |-> finalLevel,
                 source |-> IF IsCefrTest(c.sid) THEN "test" ELSE "practice", score |-> 0]
      valid == /\ \A i \in 1..Len(sessions2) : ValidRecord(sessions2[i])
               /\ OnScale(finalLevel)
  IN /\ c.pc = "analysed"
     /\ saveOk => valid
     /\ IF saveOk
        THEN /\ dbSessions' = sessions2
             /\ dbCurrentLevel' = level2
             /\ dbLanguageTest' = test2
             /\ calls' = [calls EXCEPT ![p] =
                  [c EXCEPT !.pc = "saved", !.sessions = sessions2, !.finalLevel = finalLevel]]
        ELSE /\ UNCHANGED <<dbSessions, dbCurrentLevel, dbLanguageTest>>
             /\ calls' = [calls EXCEPT ![p] =
                  [c EXCEPT !.pc = "done", !.result = "error", !.finalLevel = finalLevel]]
     /\ UNCHANGED <<redisMsgs, redisAudio, conversationStates, sessionStreams, emitted,
                    analyzerCalls>>

\* language.service.ts:661-669: completion event, stream completion, state removal
CompleteEmit(p) ==
  LET c == calls[p]
  IN /\ c.pc = "saved"
     /\ emitted' = [emitted EXCEPT ![c.sid] = Append(@, "session.completed")]
     /\ sessionStreams' = completeRealtimeStream(emitRealtimeEvent(sessionStreams, c.sid), c.sid)
     /\ conversationStates' = [conversationStates EXCEPT ![c.sid] =
                                 [present |-> FALSE, processing |-> FALSE, messages |-> <<>>]]
     /\ calls' = [calls EXCEPT ![p].pc = "cleanup"]
     /\ UNCHANGED <<dbSessions, dbCurrentLevel, dbLanguageTest, redisMsgs, redisAudio,
                    analyzerCalls>>

\* language.service.ts:671-679 with language.module.ts:207-219
CompleteCleanup(p, redisOk) ==
  LET c == calls[p]
  IN /\ c.pc = "cleanup"
     /\ IF redisOk
        THEN /\ redisMsgs' = [redisMsgs EXCEPT ![c.sid] = <<>>]
             /\ redisAudio' = [redisAudio EXCEPT ![c.sid] = <<>>]
        ELSE UNCHANGED <<redisMsgs, redisAudio>>
     /\ calls' = [calls EXCEPT ![p] = [c EXCEPT !.pc = "done", !.result = "ok"]]
     /\ UNCHANGED <<dbSessions, dbCurrentLevel, dbLanguageTest, conversationStates,
                    sessionStreams, emitted, analyzerCalls>>

-----------------------------------------------------------------------------
(* Realtime gateway and relay: constants and helpers *)

\* upstream sockets that can be created in one behaviour
MaxWs == 1

\* audio chunks accepted in one behaviour
MaxChunks == 2

\* clock ticks in one behaviour
MaxTicks == 1
MaxTasks == 1

\* length of the base64 payload of every non-empty chunk, and length of a tick

\* part_001:568
SizeThreshold == 500000
TimeThreshold == 30000

\* the clock advances in steps of the time threshold
TickMs == TimeThreshold

\* payload.audio lengths: empty, a quarter of the size threshold, the size threshold
ChunkLens == {0, SizeThreshold \div 4, SizeThreshold}

WsIds == 1..MaxWs

Sockets == {"k1", "k2"}

None == "none"

\* session ids the frontend uses on the realtime namespace
GIds == {"talk-7"}

NoWs == [sid |-> None, state |-> "unused", status |-> "connecting", listeners |-> {},
         mode |-> None]

NoBuffer == [present |-> FALSE, chunks |-> <<>>, totalSize |-> 0, startTime |-> 0]

EmptyBuffer(t) == [present |-> TRUE, chunks |-> <<>>, totalSize |-> 0, startTime |-> t]

NoChunks == [present |-> FALSE, n |-> 0]

\* per upstream socket: session.created delivered, session.update acknowledged,
\* the once('session.updated') handler still registered, session.update and
\* response.create messages sent on it, and the tutor reply the upstream is
\* producing ("none", "active", or "cancelled" once response.cancel was sent)
NoProto == [created |-> FALSE, acked |-> FALSE, once |-> FALSE,
            nUpdate |-> 0, nCreate |-> 0, resp |-> "none", heard |-> <<>>]

\* a socket slot that became free forgets its progress
Canon(p, sockets) == [w \in WsIds |-> IF sockets[w].state = "unused" THEN NoProto ELSE p[w]]

Task(kind, k, sid, combined) == [kind |-> kind, socket |-> k, sid |-> sid, combined |-> combined]

vars == <<cvars, gvars>>

GatewayInit ==
  /\ sessions = [s \in GIds |-> 0]
  /\ ws = [w \in WsIds |-> NoWs]
  /\ sessionToSocketMap = [s \in GIds |-> None]
  /\ socketToSessionMap = [k \in Sockets |-> None]
  /\ userAudioChunks = [s \in GIds |-> NoChunks]
  /\ speechStartTimes = [s \in GIds |-> -1]
  /\ audioBuffer = [s \in GIds |-> NoBuffer]
  /\ tasks = {}
  /\ reply = [k \in Sockets |-> None]
  /\ gone = {}
  /\ chunksSeen = 0
  /\ now = 0
  /\ lastTeardown = <<None, None>>
  /\ proto = [w \in WsIds |-> NoProto]
  /\ sentUp = <<>>
  /\ dropped = {}

\* the RealtimeSession object getSession returns, NoWs when the map has no entry
getSession(sid) == IF sessions[sid] = 0 THEN NoWs ELSE ws[sessions[sid]]

\* the relay holds a session with this id, whatever its status
HasSession(sid) == sessions[sid] # 0

IsConnected(sid) == sessions[sid] # 0 /\ ws[sessions[sid]].status = "connected"

\* openai.controller.ts:528-540: ws.close() and sessions.delete
\* (a socket that left the map and can reach no listener any more has no
\* further effect: its slot is free again)
closeSessionWs(sid) ==
  IF sessions[sid] = 0 THEN ws
  ELSE IF ws[sessions[sid]].state = "closed" \/ ws[sessions[sid]].listeners = {}
       THEN [ws EXCEPT ![sessions[sid]] = NoWs]
  ELSE [ws EXCEPT ![sessions[sid]].state =
          IF @ \in {"connecting", "open"} THEN "closing" ELSE @]

closeSessionMap(sid) == [sessions EXCEPT ![sid] = 0]

\* openai.controller.ts:502-516: what sendEvent puts on the session's socket
sendEvent(sid, types) == IF sid # None /\ IsConnected(sid) THEN types ELSE <<>>

\* language.module.ts:92-110
storeUserAudio(store, sid, combined) == [store EXCEPT ![sid] = LPush(@, combined)]

\* part_001:593-596: what flushAudioBuffer finds to write
NeedsFlush(sid) == audioBuffer[sid].present /\ audioBuffer[sid].chunks # <<>>

\* part_001:495-498 and 152-155: the registry deletions of a teardown (the
\* audioBuffer deletion is in Teardown)
Release(k, sid) ==
  /\ sessionToSocketMap' = [sessionToSocketMap EXCEPT ![sid] = None]
  /\ socketToSessionMap' = [socketToSessionMap EXCEPT ![k] = None]
  /\ userAudioChunks' = [userAudioChunks EXCEPT ![sid] = NoChunks]
  /\ speechStartTimes' = [speechStartTimes EXCEPT ![sid] = -1]

-----------------------------------------------------------------------------
(* RealtimePracticeGateway handlers.  Each action is one run of a handler up *)
(* to its next await on the transient store; promises that are already      *)
(* resolved continue in the same step.                                      *)

\* what the step sends to each client socket
Notify(listeners, ev) == [k \in Sockets |-> IF k \in listeners THEN ev ELSE None]

Say(k, ev) == Notify({k}, ev)

Quiet == Notify({}, None)

\* suspended handlers are kept within a cap
SpawnUpTo(cap, new) == Cardinality(tasks \cup new) <= cap /\ tasks' = tasks \cup new

\* suspended handlers are kept within MaxTasks
Spawn(new) == SpawnUpTo(MaxTasks, new)

\* payload.mode of start-practice: absent, or one of the two modes
Modes == {None, "practice", "test"}

\* part_001:192-199: the mode the relay session is created with
StartMode(mode, sid) ==
  IF mode # None THEN mode
  ELSE IF Includes(Chars(sid), Chars("cefr-test")) THEN "test"
  ELSE "practice"

\* part_001:163-232 with openai.controller.ts:109-150: createSession, registry
\* mapping, then the await on redisStorage.initializeSession
StartPracticeAs(cap, k, sid, mode) ==
  /\ k \notin gone
  /\ lastTeardown' = <<None, None>>
  /\ IF sessions[sid] # 0
     THEN /\ reply' = Say(k, "session-start-error")
          /\ UNCHANGED <<sessions, ws, sessionToSocketMap, socketToSessionMap, tasks>>
     ELSE /\ \E w \in WsIds :
               /\ ws[w].state = "unused"
               /\ \A v \in WsIds : v < w => ws[v].state # "unused"
               /\ ws' = [ws EXCEPT ![w] = [sid |-> sid, state |-> "connecting",
                                          status |-> "connecting", listeners |-> {},
                                          mode |-> StartMode(mode, sid)]]
               /\ sessions' = [sessions EXCEPT ![sid] = w]
          /\ sessionToSocketMap' = [sessionToSocketMap EXCEPT ![sid] = k]
          /\ socketToSessionMap' = [socketToSessionMap EXCEPT ![k] = sid]
          /\ SpawnUpTo(cap, {Task("start", k, sid, <<>>)})
          /\ reply' = Quiet
  /\ UNCHANGED <<userAudioChunks, speechStartTimes, audioBuffer, gone, chunksSeen, now,
                 redisMsgs, redisAudio, ponly>>
  /\ sentUp' = <<>>
  /\ UNCHANGED <<proto, dropped>>

\* start-practice without a mode in its payload
StartPracticeUpTo(cap, k, sid) == StartPracticeAs(cap, k, sid, None)

\* the start handler with the common cap on suspended handlers
StartPractice(k, sid) == StartPracticeUpTo(MaxTasks, k, sid)

\* part_001:219-249 with language.module.ts:78-87: initializeSession returned
\* (ok) or rejected; listeners are registered on the emitter the map holds now
StartContinue(t, ok) ==
  /\ t \in tasks /\ t.kind = "start"
  /\ tasks' = tasks \ {t}
  /\ IF ok
     THEN /\ redisMsgs' = [redisMsgs EXCEPT ![t.sid] = <<>>]
          /\ ws' = IF sessions[t.sid] # 0
                   THEN [ws EXCEPT ![sessions[t.sid]].listeners = @ \cup {t.socket}]
                   ELSE ws
          /\ reply' = Say(t.socket, "practice-started")
     ELSE /\ reply' = Say(t.socket, "session-start-error")
          /\ UNCHANGED <<redisMsgs, ws>>
  /\ UNCHANGED <<sessions, sessionToSocketMap, socketToSessionMap, userAudioChunks,
                 speechStartTimes, audioBuffer, gone, chunksSeen, now,
                 lastTeardown, redisAudio, ponly>>
  /\ sentUp' = <<>>
  /\ UNCHANGED <<proto, dropped>>

\* part_001:551-568: buffer after storeAudioChunkForBackup appended the chunk
Appended(sid, id, len) ==
  LET old == IF audioBuffer[sid].present THEN audioBuffer[sid] ELSE EmptyBuffer(now)
  IN [old EXCEPT !.chunks = Append(@, id), !.totalSize = @ + len]

\* part_001:567-568
shouldStore(buf) == buf.totalSize >= SizeThreshold \/ now - buf.startTime >= TimeThreshold

\* a test for empty audio that lets every payload through
NeverEmpty(len) == FALSE

\* part_001:427: !payload.audio || payload.audio.length === 0
EmptyAudio(len) == len = 0

\* part_001:383-398: audio-chunk without a payload
AudioChunkWithoutPayload(k) ==
  /\ k \notin gone
  /\ reply' = Say(k, "invalid-payload")
  /\ sentUp' = <<>>
  /\ lastTeardown' = <<None, None>>
  /\ UNCHANGED <<sessions, ws, sessionToSocketMap, socketToSessionMap, userAudioChunks,
                 speechStartTimes, audioBuffer, tasks, gone, chunksSeen, now, dropped,
                 redisMsgs, redisAudio, ponly, proto>>

\* part_001:383-483 up to the await inside storeAudioChunkForBackup
AudioChunk(k, sid, len) ==
  /\ k \notin gone
  /\ lastTeardown' = <<None, None>>
  /\ IF sid = None
     THEN /\ reply' = Say(k, "missing-session-id")
          /\ UNCHANGED <<userAudioChunks, audioBuffer, tasks, chunksSeen>>
     ELSE IF ~IsConnected(sid)
     THEN /\ reply' = Say(k, "session-not-connected")
          /\ UNCHANGED <<userAudioChunks, audioBuffer, tasks, chunksSeen>>
     ELSE IF EmptyAudio(len)
     THEN /\ reply' = Quiet
          /\ UNCHANGED <<userAudioChunks, audioBuffer, tasks, chunksSeen>>
     ELSE /\ chunksSeen < MaxChunks
          /\ chunksSeen' = chunksSeen + 1
          /\ userAudioChunks' = [userAudioChunks EXCEPT ![sid] =
                                   [present |-> TRUE, n |-> @.n + 1]]
          /\ audioBuffer' = [audioBuffer EXCEPT ![sid] = Appended(sid, chunksSeen + 1, len)]
          /\ IF shouldStore(Appended(sid, chunksSeen + 1, len))
             THEN /\ Spawn({Task("chunkStore", k, sid,
                                    Appended(sid, chunksSeen + 1, len).chunks)})
                  /\ reply' = Quiet
             ELSE /\ reply' = Say(k, "audio-chunk-received")
                  /\ UNCHANGED tasks
  /\ UNCHANGED <<sessions, ws, sessionToSocketMap, socketToSessionMap, speechStartTimes,
                 gone, now, redisMsgs, redisAudio, ponly>>
  /\ sentUp' = IF sid # None /\ ~EmptyAudio(len)
               THEN sendEvent(sid, <<"input_audio_buffer.append">>) ELSE <<>>
  /\ UNCHANGED <<proto, dropped>>

\* part_001:574-586 and 448-458: storeUserAudio returned or rejected, then the
\* handler reads userAudioChunks and acknowledges
ChunkStoreDone(t, ok) ==
  /\ t \in tasks /\ t.kind = "chunkStore"
  /\ tasks' = tasks \ {t}
  /\ IF ok
     THEN /\ redisAudio' = storeUserAudio(redisAudio, t.sid, t.combined)
          /\ audioBuffer' = [audioBuffer EXCEPT ![t.sid] = EmptyBuffer(now)]
     ELSE UNCHANGED <<redisAudio, audioBuffer>>
  /\ reply' = Say(t.socket, IF userAudioChunks[t.sid].present THEN "audio-chunk-received"
                 ELSE "audio-processing-error")
  /\ UNCHANGED <<sessions, ws, sessionToSocketMap, socketToSessionMap, userAudioChunks,
                 speechStartTimes, gone, chunksSeen, now, lastTeardown,
                 redisMsgs, ponly>>
  /\ sentUp' = <<>>
  /\ UNCHANGED <<proto, dropped>>

\* part_001:494-506: closeSession, the deletions and the acknowledgment
Teardown(k, sid, buffers) ==
  /\ ws' = closeSessionWs(sid)
  /\ sessions' = closeSessionMap(sid)
  /\ Release(k, sid)
  /\ audioBuffer' = [buffers EXCEPT ![sid] = NoBuffer]
  /\ lastTeardown' = <<k, sid>>
  /\ proto' = Canon(proto, closeSessionWs(sid))

\* part_001:485-514 when flushAudioBuffer has something to write: suspended
\* at the await of the flush
StopPracticeBegin(k, sid) ==
  /\ k \notin gone
  /\ NeedsFlush(sid)
  /\ Spawn({Task("stopFlush", k, sid, audioBuffer[sid].chunks)})
  /\ reply' = Quiet
  /\ UNCHANGED <<sessions, ws, sessionToSocketMap, socketToSessionMap, userAudioChunks,
                 speechStartTimes, audioBuffer, gone, chunksSeen, now,
                 lastTeardown, redisMsgs, redisAudio, ponly>>
  /\ sentUp' = <<>>
  /\ UNCHANGED <<proto, dropped>>

\* part_001:485-514 when there is nothing to flush: runs to the end
StopPracticeNow(k, sid) ==
  /\ k \notin gone
  /\ ~NeedsFlush(sid)
  /\ Teardown(k, sid, audioBuffer)
  /\ reply' = Say(k, "practice-stopped")
  /\ UNCHANGED <<tasks, gone, chunksSeen, now, redisMsgs, redisAudio, ponly>>
  /\ sentUp' = <<>>
  /\ UNCHANGED dropped

\* part_001:601-612 then 494-506: the flush returned, the stop handler goes on
StopAfterFlush(t, ok) ==
  /\ t \in tasks /\ t.kind = "stopFlush"
  /\ tasks' = tasks \ {t}
  /\ redisAudio' = IF ok THEN storeUserAudio(redisAudio, t.sid, t.combined) ELSE redisAudio
  /\ Teardown(t.socket, t.sid,
              IF ok THEN [audioBuffer EXCEPT ![t.sid] = EmptyBuffer(now)] ELSE audioBuffer)
  /\ reply' = Say(t.socket, "practice-stopped")
  /\ UNCHANGED <<gone, chunksSeen, now, redisMsgs, ponly>>
  /\ sentUp' = <<>>
  /\ UNCHANGED dropped

\* part_001:144-161: the flush is started but not awaited
HandleDisconnect(k) ==
  /\ k \notin gone
  /\ gone' = gone \cup {k}
  /\ IF socketToSessionMap[k] # None
     THEN LET sid == socketToSessionMap[k]
          IN /\ Spawn(IF NeedsFlush(sid)
                      THEN {Task("disconnectFlush", k, sid, audioBuffer[sid].chunks)}
                      ELSE {})
             /\ Teardown(k, sid, audioBuffer)
     ELSE UNCHANGED <<tasks, ws, proto, sessions, sessionToSocketMap, socketToSessionMap,
                      userAudioChunks, speechStartTimes, audioBuffer, lastTeardown>>
  /\ reply' = Quiet
  /\ UNCHANGED <<chunksSeen, now, redisMsgs, redisAudio, ponly>>
  /\ sentUp' = <<>>
  /\ UNCHANGED dropped

\* part_001:601-612: a flush nobody awaits (disconnect) or that the
\* speech-stopped listener awaits before commitAudio returns
FlushDone(t, ok) ==
  /\ t \in tasks /\ t.kind \in {"disconnectFlush", "speechFlush"}
  /\ tasks' = tasks \ {t}
  /\ IF ok
     THEN /\ redisAudio' = storeUserAudio(redisAudio, t.sid, t.combined)
          /\ audioBuffer' = [audioBuffer EXCEPT ![t.sid] = EmptyBuffer(now)]
     ELSE UNCHANGED <<redisAudio, audioBuffer>>
  /\ reply' = Quiet
  /\ UNCHANGED <<sessions, ws, sessionToSocketMap, socketToSessionMap, userAudioChunks,
                 speechStartTimes, gone, chunksSeen, now, lastTeardown,
                 redisMsgs, ponly>>
  /\ sentUp' = IF t.kind = "speechFlush"
               THEN sendEvent(t.sid, <<"input_audio_buffer.commit">>) ELSE <<>>
  /\ UNCHANGED <<proto, dropped>>

-----------------------------------------------------------------------------
(* Upstream socket events, openai.controller.ts:155-206, and the gateway    *)
(* listeners they reach, part_001:254-381                                   *)

\* ws 'open': status connected, 'connected' emitted
WsOpen(w) ==
  /\ ws[w].state = "connecting"
  /\ ws' = [ws EXCEPT ![w].state = "open", ![w].status = "connected"]
  /\ reply' = Notify(ws[w].listeners, "realtime-connected")
  /\ lastTeardown' = <<None, None>>
  /\ UNCHANGED <<sessions, sessionToSocketMap, socketToSessionMap, userAudioChunks,
                 speechStartTimes, audioBuffer, tasks, gone, chunksSeen, now,
                 redisMsgs, redisAudio, ponly>>
  /\ proto' = [proto EXCEPT ![w].nUpdate = @ + 1, ![w].once = TRUE]
  /\ sentUp' = <<"session.update">>
  /\ UNCHANGED dropped

\* ws 'error': status error, 'error' emitted; the socket delivers nothing
\* after it but its 'close'
WsError(w) ==
  /\ ws[w].state \in {"connecting", "open", "closing"}
  /\ ws' = [ws EXCEPT ![w].state = "failed", ![w].status = "error"]
  /\ reply' = Notify(ws[w].listeners, "realtime-error")
  /\ lastTeardown' = <<None, None>>
  /\ UNCHANGED <<sessions, sessionToSocketMap, socketToSessionMap, userAudioChunks,
                 speechStartTimes, audioBuffer, tasks, gone, chunksSeen, now,
                 redisMsgs, redisAudio, ponly>>
  /\ dropped' = IF sessions[ws[w].sid] = w THEN dropped \cup {ws[w].sid} ELSE dropped
  /\ sentUp' = <<>>
  /\ UNCHANGED proto

\* ws 'close': status disconnected, 'disconnected' emitted; nothing else
WsClose(w) ==
  /\ ws[w].state \in {"connecting", "open", "closing", "failed"}
  /\ ws' = IF sessions[ws[w].sid] = w
           THEN [ws EXCEPT ![w].state = "closed", ![w].status = "disconnected"]
           ELSE [ws EXCEPT ![w] = NoWs]
  /\ reply' = Notify(ws[w].listeners, "realtime-disconnected")
  /\ lastTeardown' = <<None, None>>
  /\ UNCHANGED <<sessions, sessionToSocketMap, socketToSessionMap, userAudioChunks,
                 speechStartTimes, audioBuffer, tasks, gone, chunksSeen, now,
                 redisMsgs, redisAudio, ponly>>
  /\ dropped' = IF sessions[ws[w].sid] = w THEN dropped \cup {ws[w].sid} ELSE dropped
  /\ sentUp' = <<>>
  /\ proto' = IF sessions[ws[w].sid] = w THEN proto ELSE [proto EXCEPT ![w] = NoProto]

\* input_audio_buffer.speech_started reaching the listener at part_001:260-266
SpeechStarted(w) ==
  /\ ws[w].state \in {"open", "closing"}
  /\ ws[w].listeners # {}
  /\ speechStartTimes' = [speechStartTimes EXCEPT ![ws[w].sid] = userAudioChunks[ws[w].sid].n]
  /\ reply' = Notify(ws[w].listeners, "user-speech-started")
  /\ lastTeardown' = <<None, None>>
  /\ UNCHANGED <<sessions, ws, sessionToSocketMap, socketToSessionMap, userAudioChunks,
                 audioBuffer, tasks, gone, chunksSeen, now,
                 redisMsgs, redisAudio, ponly>>
  /\ sentUp' = <<>>
  /\ UNCHANGED <<proto, dropped>>

\* input_audio_buffer.speech_stopped reaching the listener at part_001:269-277
SpeechStopped(w) ==
  /\ ws[w].state \in {"open", "closing"}
  /\ ws[w].listeners # {}
  /\ reply' = Notify(ws[w].listeners, "user-speech-stopped")
  /\ Spawn(IF NeedsFlush(ws[w].sid)
           THEN {Task("speechFlush", k, ws[w].sid, audioBuffer[ws[w].sid].chunks)
                   : k \in ws[w].listeners}
           ELSE {})
  /\ lastTeardown' = <<None, None>>
  /\ UNCHANGED <<sessions, ws, sessionToSocketMap, socketToSessionMap, userAudioChunks,
                 speechStartTimes, audioBuffer, gone, chunksSeen, now,
                 redisMsgs, redisAudio, ponly>>
  /\ sentUp' = IF NeedsFlush(ws[w].sid) \/ ~IsConnected(ws[w].sid) THEN <<>>
               ELSE [i \in 1..Cardinality(ws[w].listeners) |-> "input_audio_buffer.commit"]
  /\ UNCHANGED <<proto, dropped>>

\* the clock advances
Tick ==
  /\ now < MaxTicks * TickMs
  /\ now' = now + TickMs
  /\ reply' = Quiet
  /\ UNCHANGED <<sessions, ws, sessionToSocketMap, socketToSessionMap, userAudioChunks,
                 speechStartTimes, audioBuffer, tasks, gone, chunksSeen,
                 lastTeardown, redisMsgs, redisAudio, ponly>>
  /\ sentUp' = <<>>
  /\ UNCHANGED <<proto, dropped>>

-----------------------------------------------------------------------------
(* The configuration handshake, the tutor reply and interrupt:              *)
(* openai.controller.ts:162-178, 334-359, 493-516 and part_001:301-312,     *)
(* 516-546                                                                  *)

\* the upstream socket can deliver a message to the relay: it is open, or it
\* was open (session.update was sent on it) and its close has not completed
Delivers(w) ==
  \/ ws[w].state = "open"
  \/ ws[w].state = "closing" /\ proto[w].nUpdate > 0

\* openai.controller.ts:171-177: the first 'session.updated' the emitter sees
\* runs the once-handler, which starts the 300 ms timer
OnceFires(w) ==
  IF proto[w].once
  THEN Spawn({Task("initialTimer", None, ws[w].sid, <<>>)})
  ELSE UNCHANGED tasks

\* upstream 'session.created', openai.controller.ts:355-358: emitted on the
\* session's emitter as 'session.updated'
SessionCreated(w) ==
  /\ Delivers(w)
  /\ ~proto[w].created
  /\ proto' = [proto EXCEPT ![w].created = TRUE, ![w].once = FALSE]
  /\ OnceFires(w)
  /\ reply' = Quiet
  /\ sentUp' = <<>>
  /\ lastTeardown' = <<None, None>>
  /\ UNCHANGED <<sessions, ws, sessionToSocketMap, socketToSessionMap, userAudioChunks,
                 speechStartTimes, audioBuffer, gone, chunksSeen, now, dropped,
                 redisMsgs, redisAudio, ponly>>

\* upstream 'session.updated', the acknowledgment of the session.update the
\* relay sent; the upstream sends it after its session.created
SessionUpdated(w) ==
  /\ Delivers(w)
  /\ proto[w].created
  /\ proto[w].nUpdate > 0
  /\ ~proto[w].acked
  /\ proto' = [proto EXCEPT ![w].acked = TRUE, ![w].once = FALSE]
  /\ OnceFires(w)
  /\ reply' = Quiet
  /\ sentUp' = <<>>
  /\ lastTeardown' = <<None, None>>
  /\ UNCHANGED <<sessions, ws, sessionToSocketMap, socketToSessionMap, userAudioChunks,
                 speechStartTimes, audioBuffer, gone, chunksSeen, now, dropped,
                 redisMsgs, redisAudio, ponly>>

\* openai.controller.ts:172-175 and 334-345: the timer runs
\* createInitialResponse, whose sendEvent looks the session up by id
InitialResponse(t) ==
  /\ t \in tasks /\ t.kind = "initialTimer"
  /\ tasks' = tasks \ {t}
  /\ sentUp' = sendEvent(t.sid, <<"response.create">>)
  /\ proto' = IF IsConnected(t.sid)
              THEN [proto EXCEPT ![sessions[t.sid]].nCreate = @ + 1]
              ELSE proto
  /\ reply' = Quiet
  /\ UNCHANGED <<sessions, ws, sessionToSocketMap, socketToSessionMap, userAudioChunks,
                 speechStartTimes, audioBuffer, gone, chunksSeen, now, dropped,
                 lastTeardown, redisMsgs, redisAudio, ponly>>

\* upstream 'response.created': the upstream starts a tutor reply, after a
\* response.create or after audio it received
ResponseCreated(w) ==
  /\ ws[w].state = "open"
  /\ proto[w].resp = "none"
  /\ proto[w].nCreate > 0 \/ userAudioChunks[ws[w].sid].n > 0
  /\ proto' = [proto EXCEPT ![w].resp = "active"]
  /\ reply' = Quiet
  /\ sentUp' = <<>>
  /\ lastTeardown' = <<None, None>>
  /\ UNCHANGED <<sessions, ws, sessionToSocketMap, socketToSessionMap, userAudioChunks,
                 speechStartTimes, audioBuffer, tasks, gone, chunksSeen, now, dropped,
                 redisMsgs, redisAudio, ponly>>

\* upstream 'response.audio.delta' reaching the listener at part_001:301-312;
\* deltas the upstream sent before it saw a response.cancel still arrive
AudioDelta(w) ==
  /\ Delivers(w)
  /\ proto[w].resp \in {"active", "cancelled"}
  /\ ws[w].listeners # {}
  /\ reply' = Notify(ws[w].listeners, "assistant-audio-chunk")
  /\ sentUp' = <<>>
  /\ lastTeardown' = <<None, None>>
  /\ UNCHANGED <<sessions, ws, sessionToSocketMap, socketToSessionMap, userAudioChunks,
                 speechStartTimes, audioBuffer, tasks, gone, chunksSeen, now, dropped,
                 proto, redisMsgs, redisAudio, ponly>>

\* upstream 'response.done' reaching the listener at part_001:350-355
ResponseDone(w) ==
  /\ Delivers(w)
  /\ proto[w].resp # "none"
  /\ proto' = [proto EXCEPT ![w].resp = "none"]
  /\ reply' = Notify(ws[w].listeners, "assistant-response-complete")
  /\ sentUp' = <<>>
  /\ lastTeardown' = <<None, None>>
  /\ UNCHANGED <<sessions, ws, sessionToSocketMap, socketToSessionMap, userAudioChunks,
                 speechStartTimes, audioBuffer, tasks, gone, chunksSeen, now, dropped,
                 redisMsgs, redisAudio, ponly>>

\* transcript events one upstream connection delivers in the model
MaxHeard == 2

\* event.transcript of the i-th transcript event of a connection
Utterance(i) == <<"turn", ToString(i)>>

RECURSIVE LPushTimes(_, _, _)
\* the list after n listeners have each pushed the message
LPushTimes(list, x, n) == IF n = 0 THEN list ELSE LPushTimes(LPush(list, x), x, n - 1)

\* part_001:281-297 and 325-349: every listener registered on the emitter
\* issues its LPUSH in the synchronous part of its run, so the store applies
\* the pushes in the order of the events; the emit to the client changes no
\* state
TranscriptEvent(w, role) ==
  /\ Delivers(w)
  /\ ws[w].listeners # {}
  /\ Len(proto[w].heard) < MaxHeard
  /\ proto' = [proto EXCEPT ![w].heard = Append(@, role)]
  /\ redisMsgs' = [redisMsgs EXCEPT ![ws[w].sid] =
                     LPushTimes(@, Msg(role, Utterance(Len(proto[w].heard) + 1)),
                                Cardinality(ws[w].listeners))]
  /\ reply' = Notify(ws[w].listeners, IF role = "user" THEN "user-transcript-complete"
                                      ELSE "assistant-transcript-complete")
  /\ sentUp' = <<>>
  /\ lastTeardown' = <<None, None>>
  /\ UNCHANGED <<sessions, ws, sessionToSocketMap, socketToSessionMap, userAudioChunks,
                 speechStartTimes, audioBuffer, tasks, gone, chunksSeen, now, dropped,
                 redisAudio, ponly>>

\* upstream 'conversation.item.input_audio_transcription.completed'
TranscriptionCompleted(w) == TranscriptEvent(w, "user")

\* upstream 'response.audio_transcript.done'
TranscriptDone(w) == TranscriptEvent(w, "assistant")

\* codes of the upstream 'error' event
ErrorCodes == {"input_audio_buffer_commit_empty", "rate_limit_exceeded"}

\* upstream 'error', openai.controller.ts:416-429 and part_001:360-368: an
\* empty-commit error returns before the emit; any other is emitted as 'error'
\* and each registered listener notifies its client.  An 'error' emitted with
\* no listener throws inside the message handler's try (openai.controller.ts:
\* 180-190), which logs it.
UpstreamError(w, code) ==
  /\ Delivers(w)
  /\ reply' = IF code = "input_audio_buffer_commit_empty" THEN Quiet
              ELSE Notify(ws[w].listeners, "realtime-error")
  /\ sentUp' = <<>>
  /\ lastTeardown' = <<None, None>>
  /\ UNCHANGED <<sessions, ws, sessionToSocketMap, socketToSessionMap, userAudioChunks,
                 speechStartTimes, audioBuffer, tasks, gone, chunksSeen, now, dropped,
                 redisMsgs, redisAudio, ponly, proto>>

\* the two messages in the opposite order
InterruptMessagesSwapped == <<"response.cancel", "input_audio_buffer.discard">>

\* part_001:524-534: discardAudio, then response.cancel
InterruptMessages == <<"input_audio_buffer.discard", "response.cancel">>

\* part_001:516-546
HandleInterrupt(k, sid) ==
  /\ k \notin gone
  /\ sentUp' = sendEvent(sid, InterruptMessages)
  /\ proto' = IF IsConnected(sid) /\ proto[sessions[sid]].resp = "active"
              THEN [proto EXCEPT ![sessions[sid]].resp = "cancelled"]
              ELSE proto
  /\ reply' = Say(k, "interrupted")
  /\ lastTeardown' = <<None, None>>
  /\ UNCHANGED <<sessions, ws, sessionToSocketMap, socketToSessionMap, userAudioChunks,
                 speechStartTimes, audioBuffer, tasks, gone, chunksSeen, now, dropped,
                 redisMsgs, redisAudio, ponly>>

-----------------------------------------------------------------------------
(* Specification of the gateway and relay *)

GInit ==
  /\ GatewayInit
  /\ dbSessions = <<>>
  /\ dbCurrentLevel = NoEntry
  /\ dbLanguageTest = NoEntry
  /\ redisMsgs = [s \in SessionIds |-> <<>>]
  /\ redisAudio = [s \in SessionIds |-> <<>>]
  /\ conversationStates = [s \in SessionIds |-> [present |-> FALSE, processing |-> FALSE, messages |-> <<>>]]
  /\ sessionStreams = {}
  /\ emitted = [s \in SessionIds |-> <<>>]
  /\ analyzerCalls = [s \in SessionIds |-> 0]
  /\ calls = [p \in Procs |-> IdleCall]

Continuations ==
  \/ \E t \in tasks : \E ok \in BOOLEAN : StartContinue(t, ok)
  \/ \E t \in tasks : \E ok \in BOOLEAN : ChunkStoreDone(t, ok)
  \/ \E t \in tasks : \E ok \in BOOLEAN : StopAfterFlush(t, ok)
  \/ \E t \in tasks : \E ok \in BOOLEAN : FlushDone(t, ok)

GNext ==
  \/ \E k \in Sockets, sid \in GIds : StartPractice(k, sid)
  \/ \E k \in Sockets, sid \in GIds \cup {None}, len \in ChunkLens : AudioChunk(k, sid, len)
  \/ \E k \in Sockets, sid \in GIds : StopPracticeBegin(k, sid)
  \/ \E k \in Sockets, sid \in GIds : StopPracticeNow(k, sid)
  \/ \E k \in Sockets : HandleDisconnect(k)
  \/ \E w \in WsIds : WsOpen(w)
  \/ \E w \in WsIds : WsError(w)
  \/ \E w \in WsIds : WsClose(w)
  \/ \E w \in WsIds : SpeechStarted(w)
  \/ \E w \in WsIds : SpeechStopped(w)
  \/ Tick
  \/ Continuations

GSpec == GInit /\ [][GNext]_vars

\* the event loop runs every continuation whose awaited operation has settled
GFairSpec == GSpec /\ WF_vars(Continuations)

-----------------------------------------------------------------------------
(* Specification of the relay's session life cycle: start, configuration,   *)
(* tutor replies, interrupt, audio and stop                                 *)

RNext ==
  \/ \E k \in Sockets, sid \in GIds : StartPractice(k, sid)
  \/ \E t \in tasks : \E ok \in BOOLEAN : StartContinue(t, ok)
  \/ \E k \in Sockets, sid \in GIds \cup {None}, len \in ChunkLens : AudioChunk(k, sid, len)
  \/ \E t \in tasks : \E ok \in BOOLEAN : ChunkStoreDone(t, ok)
  \/ \E k \in Sockets, sid \in GIds : StopPracticeBegin(k, sid)
  \/ \E k \in Sockets, sid \in GIds : StopPracticeNow(k, sid)
  \/ \E t \in tasks : \E ok \in BOOLEAN : StopAfterFlush(t, ok)
  \/ \E k \in Sockets, sid \in GIds : HandleInterrupt(k, sid)
  \/ \E w \in WsIds : WsOpen(w)
  \/ \E w \in WsIds : WsError(w)
  \/ \E w \in WsIds : WsClose(w)
  \/ \E w \in WsIds : SessionCreated(w)
  \/ \E w \in WsIds : SessionUpdated(w)
  \/ \E t \in tasks : InitialResponse(t)
  \/ \E w \in WsIds : ResponseCreated(w)
  \/ \E w \in WsIds : AudioDelta(w)
  \/ \E w \in WsIds : ResponseDone(w)

RSpec == GInit /\ [][RNext]_vars

\* the handlers a caller reaches on one session, with the upstream events that
\* decide the session's status
INext ==
  \/ \E k \in Sockets, sid \in GIds : StartPractice(k, sid)
  \/ \E t \in tasks : \E ok \in BOOLEAN : StartContinue(t, ok)
  \/ \E k \in Sockets, sid \in GIds \cup {None}, len \in ChunkLens : AudioChunk(k, sid, len)
  \/ \E k \in Sockets : AudioChunkWithoutPayload(k)
  \/ \E t \in tasks : \E ok \in BOOLEAN : ChunkStoreDone(t, ok)
  \/ \E k \in Sockets, sid \in GIds : HandleInterrupt(k, sid)
  \/ \E w \in WsIds : WsOpen(w)
  \/ \E w \in WsIds : WsError(w)
  \/ \E w \in WsIds : WsClose(w)
  \/ \E w \in WsIds : ResponseCreated(w)
  \/ \E w \in WsIds : ResponseDone(w)

ISpec == GInit /\ [][INext]_vars

\* the backup buffer of a session whose transient store accepts every write:
\* audio, the flushes of speech-stopped, stop and disconnect, and the clock
BNext ==
  \/ \E k \in Sockets, sid \in GIds : StartPractice(k, sid)
  \/ \E t \in tasks : StartContinue(t, TRUE)
  \/ \E k \in Sockets, sid \in GIds, len \in ChunkLens : AudioChunk(k, sid, len)
  \/ \E t \in tasks : ChunkStoreDone(t, TRUE)
  \/ \E k \in Sockets, sid \in GIds : StopPracticeBegin(k, sid)
  \/ \E k \in Sockets, sid \in GIds : StopPracticeNow(k, sid)
  \/ \E t \in tasks : StopAfterFlush(t, TRUE)
  \/ \E k \in Sockets : HandleDisconnect(k)
  \/ \E t \in tasks : FlushDone(t, TRUE)
  \/ \E w \in WsIds : WsOpen(w)
  \/ \E w \in WsIds : SpeechStopped(w)
  \/ Tick

BSpec == GInit /\ [][BNext]_vars

-----------------------------------------------------------------------------
(* handleStopPractice statement by statement, part_001:492-506: the await of *)
(* closeSession gives the event loop back between the relay's release and    *)
(* the deletions of the gateway's own entries                                *)

\* part_001:492-494 when flushAudioBuffer has nothing to write: closeSession
\* has run, the handler is suspended at its await
StopCloseSession(k, sid) ==
  /\ k \notin gone
  /\ ~NeedsFlush(sid)
  /\ ws' = closeSessionWs(sid)
  /\ sessions' = closeSessionMap(sid)
  /\ proto' = Canon(proto, closeSessionWs(sid))
  /\ Spawn({Task("stopRelease", k, sid, <<>>)})
  /\ reply' = Quiet
  /\ sentUp' = <<>>
  /\ UNCHANGED <<sessionToSocketMap, socketToSessionMap, userAudioChunks, speechStartTimes,
                 audioBuffer, gone, chunksSeen, now, lastTeardown, dropped,
                 redisMsgs, redisAudio, ponly>>

\* part_001:601-612 then 494: the flush returned, closeSession has run, the
\* handler is suspended at its await
StopFlushedClose(t, ok) ==
  /\ t \in tasks /\ t.kind = "stopFlush"
  /\ tasks' = (tasks \ {t}) \cup {Task("stopRelease", t.socket, t.sid, <<>>)}
  /\ redisAudio' = IF ok THEN storeUserAudio(redisAudio, t.sid, t.combined) ELSE redisAudio
  /\ audioBuffer' = IF ok THEN [audioBuffer EXCEPT ![t.sid] = EmptyBuffer(now)]
                    ELSE audioBuffer
  /\ ws' = closeSessionWs(t.sid)
  /\ sessions' = closeSessionMap(t.sid)
  /\ proto' = Canon(proto, closeSessionWs(t.sid))
  /\ reply' = Quiet
  /\ sentUp' = <<>>
  /\ UNCHANGED <<sessionToSocketMap, socketToSessionMap, userAudioChunks, speechStartTimes,
                 gone, chunksSeen, now, lastTeardown, dropped, redisMsgs, ponly>>

\* part_001:495-506: the deletions and the acknowledgment
StopRelease(t) ==
  /\ t \in tasks /\ t.kind = "stopRelease"
  /\ tasks' = tasks \ {t}
  /\ Release(t.socket, t.sid)
  /\ audioBuffer' = [audioBuffer EXCEPT ![t.sid] = NoBuffer]
  /\ lastTeardown' = <<t.socket, t.sid>>
  /\ reply' = Say(t.socket, "practice-stopped")
  /\ sentUp' = <<>>
  /\ UNCHANGED <<sessions, ws, proto, gone, chunksSeen, now, dropped,
                 redisMsgs, redisAudio, ponly>>

\* the order of the releases of a teardown: start, audio, stop statement by
\* statement, disconnect
ONext ==
  \/ \E k \in Sockets, sid \in GIds : StartPractice(k, sid)
  \/ \E t \in tasks : \E ok \in BOOLEAN : StartContinue(t, ok)
  \/ \E w \in WsIds : WsOpen(w)
  \/ \E k \in Sockets, sid \in GIds, len \in ChunkLens : AudioChunk(k, sid, len)
  \/ \E t \in tasks : \E ok \in BOOLEAN : ChunkStoreDone(t, ok)
  \/ \E k \in Sockets, sid \in GIds : StopPracticeBegin(k, sid)
  \/ \E k \in Sockets, sid \in GIds : StopCloseSession(k, sid)
  \/ \E t \in tasks : \E ok \in BOOLEAN : StopFlushedClose(t, ok)
  \/ \E t \in tasks : StopRelease(t)
  \/ \E k \in Sockets : HandleDisconnect(k)
  \/ \E t \in tasks : \E ok \in BOOLEAN : FlushDone(t, ok)

OSpec == GInit /\ [][ONext]_vars

\* start handlers that may be suspended at once while transcripts are stored
MaxStarts == 2

\* the transcript messages of a session: start and stop by any connection, the
\* upstream connection and its transcript events; the transient store accepts
\* every write
MNext ==
  \/ \E k \in Sockets, sid \in GIds : StartPracticeUpTo(MaxStarts, k, sid)
  \/ \E t \in tasks : StartContinue(t, TRUE)
  \/ \E k \in Sockets, sid \in GIds : StopPracticeNow(k, sid)
  \/ \E w \in WsIds : WsOpen(w)
  \/ \E w \in WsIds : WsClose(w)
  \/ \E w \in WsIds : TranscriptionCompleted(w)
  \/ \E w \in WsIds : TranscriptDone(w)
  \/ \E w \in WsIds, code \in ErrorCodes : UpstreamError(w, code)
  \/ \E w \in WsIds : SpeechStopped(w)

MSpec == GInit /\ [][MNext]_vars

-----------------------------------------------------------------------------
(* LanguageService.handleUserTranscript, language.service.ts:224-371, one   *)
(* action per await boundary.  A reply generation in flight is a task whose *)
(* combined field holds the length of the conversation it was started with. *)

\* learner transcripts one session accepts in the model
MaxTranscripts == 4

\* payload.userId of a userTranscript message; the session belongs to u1
Users == {"u1", "u2"}

StateUser == "u1"

\* user turns in state.messages
Turns(messages) == Cardinality({i \in 1..Len(messages) : messages[i] = "user"})

\* language.service.ts:245: the flag is never consulted
NeverBusy(state) == FALSE

\* language.service.ts:245: the session is generating a reply
Busy(state) == state.processing

\* the reply generations in flight for the session
Generations(sid) == {t \in tasks : t.sid = sid /\ t.kind \in {"generate", "streaming"}}

\* language.service.ts:231-273: the checks, the push, the event and the flag,
\* up to the await of streamResponse
HandleUserTranscript(u, sid) ==
  LET state == conversationStates[sid]
  IN /\ IF ~state.present \/ u # StateUser \/ Busy(state)
        THEN UNCHANGED <<conversationStates, emitted, sessionStreams, tasks>>
        ELSE /\ Turns(state.messages) < MaxTranscripts
             /\ conversationStates' = [conversationStates EXCEPT
                                         ![sid].messages = Append(@, "user"),
                                         ![sid].processing = TRUE]
             /\ emitted' = [emitted EXCEPT ![sid] = Append(@, "session.event")]
             /\ sessionStreams' = emitRealtimeEvent(sessionStreams, sid)
             /\ tasks' = tasks \cup {Task("generate", u, sid, <<Len(state.messages) + 1>>)}
     /\ UNCHANGED <<dbSessions, dbCurrentLevel, dbLanguageTest, redisMsgs, redisAudio,
                    analyzerCalls, calls, sessions, ws, sessionToSocketMap,
                    socketToSessionMap, userAudioChunks, speechStartTimes, audioBuffer,
                    reply, gone, chunksSeen, now, lastTeardown, proto, sentUp, dropped>>

\* the flag is left as the call found it
Kept(state) == state

\* language.service.ts:341, 370: state.processing = false
Cleared(state) == [state EXCEPT !.processing = FALSE]

\* language.service.ts:279-293: a text delta of the stream
StreamDelta(t) ==
  /\ t \in tasks /\ t.kind = "generate"
  /\ tasks' = (tasks \ {t}) \cup {[t EXCEPT !.kind = "streaming"]}
  /\ emitted' = [emitted EXCEPT ![t.sid] = Append(@, "assistant.message")]
  /\ sessionStreams' = emitRealtimeEvent(sessionStreams, t.sid)
  /\ UNCHANGED <<dbSessions, dbCurrentLevel, dbLanguageTest, redisMsgs, redisAudio,
                 conversationStates, analyzerCalls, calls, sessions, ws,
                 sessionToSocketMap, socketToSessionMap, userAudioChunks,
                 speechStartTimes, audioBuffer, reply, gone, chunksSeen, now,
                 lastTeardown, proto, sentUp, dropped>>

\* language.service.ts:326-342: streamResponse or the stream threw
StreamFailed(t) ==
  /\ t \in Generations(t.sid)
  /\ tasks' = tasks \ {t}
  /\ emitted' = [emitted EXCEPT ![t.sid] = Append(@, "assistant.message")]
  /\ sessionStreams' = emitRealtimeEvent(sessionStreams, t.sid)
  /\ conversationStates' = IF conversationStates[t.sid].present
                           THEN [conversationStates EXCEPT ![t.sid] = Cleared(@)]
                           ELSE conversationStates
  /\ UNCHANGED <<dbSessions, dbCurrentLevel, dbLanguageTest, redisMsgs, redisAudio,
                 analyzerCalls, calls, sessions, ws, sessionToSocketMap,
                 socketToSessionMap, userAudioChunks, speechStartTimes, audioBuffer,
                 reply, gone, chunksSeen, now, lastTeardown, proto, sentUp, dropped>>

\* language.service.ts:344-370: the stream ended; the reply is appended when
\* it has text, the final event is emitted and the flag is cleared
StreamDone(t) ==
  /\ t \in Generations(t.sid)
  /\ tasks' = tasks \ {t}
  /\ emitted' = [emitted EXCEPT ![t.sid] = Append(@, "assistant.message")]
  /\ sessionStreams' = emitRealtimeEvent(sessionStreams, t.sid)
  /\ conversationStates' =
       IF conversationStates[t.sid].present
       THEN [conversationStates EXCEPT
               ![t.sid] = Cleared([@ EXCEPT !.messages = IF t.kind = "streaming"
                                                         THEN Append(@, "assistant")
                                                         ELSE @])]
       ELSE conversationStates
  /\ UNCHANGED <<dbSessions, dbCurrentLevel, dbLanguageTest, redisMsgs, redisAudio,
                 analyzerCalls, calls, sessions, ws, sessionToSocketMap,
                 socketToSessionMap, userAudioChunks, speechStartTimes, audioBuffer,
                 reply, gone, chunksSeen, now, lastTeardown, proto, sentUp, dropped>>

TNext ==
  \/ \E sid \in ObjectIds, level \in StartLevels :
       StartPracticeSession(sid, level) /\ UNCHANGED gvars
  \/ \E u \in Users, sid \in ObjectIds : HandleUserTranscript(u, sid)
  \/ \E t \in tasks : StreamDelta(t)
  \/ \E t \in tasks : StreamFailed(t)
  \/ \E t \in tasks : StreamDone(t)

TSpec == GInit /\ [][TNext]_vars

\* language.service.ts:280, 326: the stream of a reply terminates, by its end
\* or by an error
TFairSpec == TSpec /\ WF_vars(\E t \in tasks : StreamFailed(t) \/ StreamDone(t))

-----------------------------------------------------------------------------
(* Specification of the completion pipeline *)

CInit ==
  /\ dbSessions = <<>>
  /\ dbCurrentLevel = NoEntry
  /\ dbLanguageTest = NoEntry
  /\ \E t \in Transcripts : redisMsgs = [s \in SessionIds |-> LPushAll(<<>>, t)]
  /\ redisAudio = [s \in SessionIds |-> <<>>]
  /\ conversationStates = [s \in SessionIds |-> [present |-> FALSE, processing |-> FALSE, messages |-> <<>>]]
  /\ sessionStreams = {}
  /\ emitted = [s \in SessionIds |-> <<>>]
  /\ analyzerCalls = [s \in SessionIds |-> 0]
  /\ calls = [p \in Procs |-> IdleCall]
  /\ GatewayInit

CNext ==
  \/ \E sid \in ObjectIds, level \in StartLevels :
        StartPracticeSession(sid, level) /\ UNCHANGED gvars
  \/ \E p \in Procs, sid \in SessionIds, dto \in Dtos :
        CompleteBegin(p, sid, dto) /\ UNCHANGED gvars
  \/ \E p \in Procs : CompleteFind(p) /\ UNCHANGED gvars
  \/ \E p \in Procs, outcome \in ModelOutcomes : CompleteAnalyze(p, outcome) /\ UNCHANGED gvars
  \/ \E p \in Procs, saveOk \in BOOLEAN : CompleteSave(p, saveOk) /\ UNCHANGED gvars
  \/ \E p \in Procs : CompleteEmit(p) /\ UNCHANGED gvars
  \/ \E p \in Procs, redisOk \in BOOLEAN : CompleteCleanup(p, redisOk) /\ UNCHANGED gvars

CSpec == CInit /\ [][CNext]_vars

-----------------------------------------------------------------------------
(* A relay session started with a mode, and the completion of its id *)

PNext ==
  \/ \E k \in Sockets, sid \in GIds, mode \in Modes : StartPracticeAs(MaxTasks, k, sid, mode)
  \/ \E t \in tasks : \E ok \in BOOLEAN : StartContinue(t, ok)
  \/ \E w \in WsIds : WsOpen(w)
  \/ \E sid \in GIds, dto \in Dtos : CompleteBegin("r1", sid, dto) /\ UNCHANGED gvars
  \/ CompleteFind("r1") /\ UNCHANGED gvars
  \/ \E outcome \in ModelOutcomes : CompleteAnalyze("r1", outcome) /\ UNCHANGED gvars
  \/ \E saveOk \in BOOLEAN : CompleteSave("r1", saveOk) /\ UNCHANGED gvars
  \/ CompleteEmit("r1") /\ UNCHANGED gvars
  \/ \E redisOk \in BOOLEAN : CompleteCleanup("r1", redisOk) /\ UNCHANGED gvars

PSpec == GInit /\ [][PNext]_vars

-----------------------------------------------------------------------------
(* A session's tutor replies together with its completion *)

\* one completion request for a session the service started, while the
\* session's transcripts are being answered
XNext ==
  \/ TNext
  \/ \E sid \in ObjectIds, dto \in Dtos : CompleteBegin("r1", sid, dto) /\ UNCHANGED gvars
  \/ CompleteFind("r1") /\ UNCHANGED gvars
  \/ \E outcome \in ModelOutcomes : CompleteAnalyze("r1", outcome) /\ UNCHANGED gvars
  \/ \E saveOk \in BOOLEAN : CompleteSave("r1", saveOk) /\ UNCHANGED gvars
  \/ CompleteEmit("r1") /\ UNCHANGED gvars
  \/ \E redisOk \in BOOLEAN : CompleteCleanup("r1", redisOk) /\ UNCHANGED gvars

XSpec == GInit /\ [][XNext]_vars

-----------------------------------------------------------------------------
(* The record completePracticeSession synthesizes for an id it does not     *)
(* find, language.service.ts:387-426, with its times in milliseconds        *)

\* dto.endedAt: the epoch, one tick and twenty ticks after it
EndTimes == {0, TickMs, 20 * TickMs}

\* dto.durationSeconds; 0 also stands for an absent duration (`|| 0`)
Durations == {0, 10, 400}

\* language.service.ts:393-400; endedAt passed @IsDateString, so the only
\* unusable start is one before the epoch
validStartTime(endedAt, durationSeconds) ==
  LET startTime == endedAt - durationSeconds * 1000
  IN IF startTime < 0 THEN endedAt - 300000 ELSE startTime

\* language.service.ts:380-429 for a request that carries endedAt and
\* durationSeconds: CompleteFind with the start time of the synthesized record
CompleteFindDated(p, endedAt, durationSeconds) ==
  LET c == calls[p]
      found == SelectIdx(c.sessions, c.sid, 1)
      fresh == [startedAt |-> validStartTime(endedAt, durationSeconds)]
               @@ PracticeRecord(c.sid, OrElse(c.dto.level, "A1"))
  IN /\ c.pc = "loaded"
     /\ calls' = [calls EXCEPT ![p] =
          [c EXCEPT !.pc = "messages",
                    !.idx = found,
                    !.synthesized = (found = 0),
                    !.session = IF found # 0 THEN c.sessions[found] ELSE fresh,
                    !.sessions = IF found # 0 THEN c.sessions ELSE Append(c.sessions, fresh),
                    !.messages = getSessionMessages(c.sid)]]
     /\ UNCHANGED <<dbSessions, dbCurrentLevel, dbLanguageTest, redisMsgs, redisAudio,
                    conversationStates, sessionStreams, emitted, analyzerCalls>>

\* one request: the record is synthesized once per behaviour
DNext ==
  \/ Tick
  \/ \E p \in {"r1"}, sid \in ObjectIds, dto \in Dtos :
        CompleteBegin(p, sid, dto) /\ UNCHANGED gvars
  \/ \E p \in {"r1"}, endedAt \in EndTimes, durationSeconds \in Durations :
        CompleteFindDated(p, endedAt, durationSeconds) /\ UNCHANGED gvars
  \/ \E p \in {"r1"}, outcome \in ModelOutcomes : CompleteAnalyze(p, outcome) /\ UNCHANGED gvars
  \/ \E p \in {"r1"}, saveOk \in BOOLEAN : CompleteSave(p, saveOk) /\ UNCHANGED gvars
  \/ \E p \in {"r1"} : CompleteEmit(p) /\ UNCHANGED gvars
  \/ \E p \in {"r1"}, redisOk \in BOOLEAN : CompleteCleanup(p, redisOk) /\ UNCHANGED gvars

DSpec == CInit /\ [][DNext]_vars

-----------------------------------------------------------------------------
(* Properties of the completion pipeline *)

\* the call has written its record to the user document
Persisted(p) == calls[p].pc \in {"saved", "cleanup"} \/ calls[p].result = "ok"

CountEvents(seq, type) == Cardinality({i \in 1..Len(seq) : seq[i] = type})

\* the level the reconciliation priority prescribes for a call
PriorityLevel(c) ==
  OrElse(c.extracted, OrElse(IF c.cefr.present THEN c.cefr.level ELSE NoLevel, c.original))

\* C1: for every completion, whatever the session kind, transcript, level
\* announcement and analyzer outcome, the level persisted on the PracticeRecord
\* is the extracted level when present, else the analyzed level when analysis
\* produced one, else the original level.
C1_PersistedLevelFollowsPriority ==
  \A p \in Procs : Persisted(p) => calls[p].session.level = PriorityLevel(calls[p])

\* C2: when the scoring model fails while a placement test with a non-empty
\* transcript is completed, the record is persisted with all four scores 50
\* and with level = extracted level if present, else the original level, and
\* the caller gets no error.
C2_ModelFailureKeepsOriginalLevel ==
  \A p \in Procs :
    (/\ calls[p].pc \in {"analysed", "saved", "cleanup", "done"}
     /\ IsCefrTest(calls[p].sid)
     /\ calls[p].messages # <<>>
     /\ calls[p].outcome = "error")
    => /\ calls[p].session.scores = Scores(50, 50, 50, 50)
       /\ calls[p].session.level = OrElse(calls[p].extracted, calls[p].original)

\* C4: after a session is completed the persisted practice-session list holds
\* exactly one record with that session id, whether the record existed before
\* or completion synthesized it.
C4_ExactlyOneRecordPerSession ==
  \A p \in Procs : Persisted(p) => CountId(dbSessions, calls[p].sid) = 1

\* C5: two completePracticeSession calls for one session id never both run the
\* pipeline: the second neither re-analyzes, re-persists nor emits a second
\* completion event.
C5_PipelineRunsOncePerSession ==
  \A s \in SessionIds :
    /\ CountEvents(emitted[s], "session.completed") <= 1
    /\ Cardinality({p \in Procs : calls[p].sid = s /\ Persisted(p)}) <= 1

\* C7: if persisting the user document fails, the failure is returned to the
\* caller and the per-session state is still released: conversationStates and
\* sessionStreams entries removed, transient-store lists deleted.
C7_FailedSaveStillReleases ==
  \A p \in Procs :
    (calls[p].pc = "done" /\ calls[p].result = "error")
    => /\ ~conversationStates[calls[p].sid].present
       /\ calls[p].sid \notin sessionStreams
       /\ redisMsgs[calls[p].sid] = <<>>
       /\ redisAudio[calls[p].sid] = <<>>

-----------------------------------------------------------------------------
(* Properties of the gateway and relay *)

\* no map of the gateway or of the relay holds an entry for the session
NoEntryFor(sid) ==
  /\ sessions[sid] = 0
  /\ sessionToSocketMap[sid] = None
  /\ \A k \in Sockets : socketToSessionMap[k] # sid
  /\ ~userAudioChunks[sid].present
  /\ speechStartTimes[sid] = -1
  /\ ~audioBuffer[sid].present

\* C3: once handleStopPractice or handleDisconnect has run for a session and
\* every continuation has finished, sessionToSocketMap, socketToSessionMap,
\* userAudioChunks, speechStartTimes, audioBuffer and the relay's sessions map
\* hold no entry for the session id.
\* (lastTeardown names the session while nothing but continuations ran since
\* its teardown)
C3_TeardownLeavesNoEntry ==
  \A sid \in GIds : (lastTeardown[2] = sid /\ tasks = {}) => NoEntryFor(sid)

\* the part of C3 that concerns the backup buffer alone
BackupBufferReleased ==
  \A sid \in GIds : (lastTeardown[2] = sid /\ tasks = {}) => ~audioBuffer[sid].present

\* C6: while the forced flush of a stop or of a disconnect has not returned,
\* the session's audioBuffer entry and its registry entry are still there.
C6_FlushBeforeRemoval ==
  \A t \in tasks :
    t.kind \in {"stopFlush", "disconnectFlush"} =>
      audioBuffer[t.sid].present /\ sessionToSocketMap[t.sid] # None

\* a step that ends a teardown of the session: a stop by any connection, or
\* the disconnect of the connection that tore it down before
TeardownStep(k, sid) ==
  \/ \E j \in Sockets : StopPracticeNow(j, sid)
  \/ \E t \in tasks : t.sid = sid /\ \E ok \in BOOLEAN : StopAfterFlush(t, ok)
  \/ HandleDisconnect(k)

\* C8: a teardown of a session that was already torn down, with no client
\* message or upstream event for it in between, changes none of the
\* registries, the backup-buffer map or the relay's sessions map.
C8_SecondTeardownIsNoOp ==
  [][(lastTeardown[2] # None /\ TeardownStep(lastTeardown[1], lastTeardown[2]))
       => UNCHANGED <<sessions, ws, sessionToSocketMap, socketToSessionMap,
                      userAudioChunks, speechStartTimes, audioBuffer>>]_vars

\* upstream sockets of the session that are neither closing nor closed
LiveConnections(sid) == {w \in WsIds : ws[w].sid = sid /\ ws[w].state \in {"connecting", "open"}}

\* connections the registry maps to the session
RegisteredSockets(sid) == {k \in Sockets : socketToSessionMap[k] = sid}

\* C9: start-practice for a session id that has a relay session answers with
\* an error and changes neither the relay nor the registry; and every session
\* id has at most one live upstream connection and at most one connection
\* registered for it.
C9_DuplicateStartRejected ==
  /\ [](\A sid \in GIds : /\ Cardinality(LiveConnections(sid)) <= 1
                          /\ Cardinality(RegisteredSockets(sid)) <= 1)
  /\ [][\A k \in Sockets, sid \in GIds :
          (sessions[sid] # 0 /\ StartPractice(k, sid)) =>
             /\ reply'[k] = "session-start-error"
             /\ UNCHANGED <<sessions, ws, sessionToSocketMap, socketToSessionMap>>]_vars

\* the session's upstream socket has closed or failed while the relay still
\* holds the session
UpstreamDown(sid) ==
  sessions[sid] # 0 /\ ws[sessions[sid]].state \in {"closed", "failed"}

\* C10: after the upstream socket of a session has closed or failed, the
\* session's relay entry, registry entries and backup buffer are eventually
\* released.
C10_UpstreamCloseTearsDown ==
  \A sid \in GIds : UpstreamDown(sid) ~> NoEntryFor(sid)

\* C11: once interrupt has cancelled the tutor reply that was in flight, no
\* further assistant-audio-chunk of that reply is emitted to the session's
\* listeners.
C11_NoAudioAfterInterrupt ==
  [][\A w \in WsIds :
       (proto[w].resp = "cancelled" /\ AudioDelta(w)) =>
          \A k \in ws[w].listeners : reply'[k] # "assistant-audio-chunk"]_vars

\* C12: interrupt for a connected session sends input_audio_buffer.discard
\* and then response.cancel upstream within the handler's own step, so both
\* precede whatever a later audio-chunk forwards; the step changes neither
\* the session's status nor any registry or backup-buffer entry.
C12_InterruptDiscardsThenCancels ==
  [][\A k \in Sockets, sid \in GIds :
       (IsConnected(sid) /\ HandleInterrupt(k, sid)) =>
          /\ sentUp' = <<"input_audio_buffer.discard", "response.cancel">>
          /\ UNCHANGED <<sessions, ws, sessionToSocketMap, socketToSessionMap,
                         userAudioChunks, speechStartTimes, audioBuffer>>]_vars

\* an interrupt has just been handled for a connected session that holds
\* buffered audio
C12_InterruptHandled ==
  \E k \in Sockets, sid \in GIds :
    /\ reply[k] = "interrupted"
    /\ IsConnected(sid)
    /\ audioBuffer[sid].present /\ audioBuffer[sid].chunks # <<>>
    /\ sentUp = <<"input_audio_buffer.discard", "response.cancel">>

\* C13: an upstream connection has status 'connected' only once the upstream
\* has acknowledged the configuration (session.updated received); before
\* that, audio-chunks for its session are rejected.
C13_ConnectedOnlyAfterAck ==
  \A w \in WsIds : ws[w].status = "connected" => proto[w].acked

\* the part of C13 that concerns audio: no fragment of a session has been
\* accepted while its configuration was not acknowledged
C13_NoAudioBeforeAck ==
  \A sid \in GIds :
    (IsConnected(sid) /\ userAudioChunks[sid].n > 0) => proto[sessions[sid]].acked

\* C14: on each upstream connection the relay sends exactly one
\* session.update and at most one initial response.create, and the
\* response.create only after the configuration was acknowledged, never in
\* reaction to session.created.
C14_InitialResponseAfterAck ==
  \A w \in WsIds :
    /\ ws[w].state = "open" => proto[w].nUpdate = 1
    /\ proto[w].nCreate <= 1
    /\ proto[w].nCreate > 0 => proto[w].acked

\* C15: the status of a session never returns to 'connecting' and a
\* 'disconnected' or 'error' session never becomes 'connected': a session id
\* whose session was dropped has no connecting or connected session again,
\* a replacement needs a new id.
C15_DroppedIdNotReused ==
  \A sid \in dropped :
    sessions[sid] = 0 \/ ws[sessions[sid]].status \in {"disconnected", "error"}

\* C16: an audio-chunk naming a session that does not exist or whose status
\* is not 'connected' is answered with the session-not-connected error,
\* sends nothing upstream and adds nothing to userAudioChunks, to the
\* backup buffer or to the transient store.
C16_ChunkForUnconnectedRejected ==
  [][\A k \in Sockets, sid \in GIds, len \in ChunkLens :
       (/\ sessions[sid] = 0 \/ ws[sessions[sid]].status # "connected"
        /\ AudioChunk(k, sid, len)) =>
          /\ reply'[k] = "session-not-connected"
          /\ sentUp' = <<>>
          /\ UNCHANGED <<userAudioChunks, audioBuffer, redisAudio, tasks>>]_vars

\* an audio-chunk has just been rejected for a session that had accepted
\* audio before its upstream connection went down
C16_ChunkRejected ==
  \E k \in Sockets, sid \in GIds :
    /\ reply[k] = "session-not-connected"
    /\ sessions[sid] # 0
    /\ ws[sessions[sid]].status \in {"disconnected", "error"}
    /\ userAudioChunks[sid].n > 0
    /\ sentUp = <<>>

RECURSIVE Flatten(_)
\* the fragments of a list of segments, in the segments' order
Flatten(segments) ==
  IF segments = <<>> THEN <<>> ELSE Head(segments) \o Flatten(Tail(segments))

\* the fragments the transient store holds for the session, oldest segment
\* first
WrittenFragments(sid) == Flatten(Reverse(redisAudio[sid]))

\* the fragments accepted so far, in arrival order
AcceptedFragments == [i \in 1..chunksSeen |-> i]

\* C17: when a teardown of the session has completed and no store write is
\* pending, the transient store holds every accepted fragment exactly once,
\* in arrival order.
C17_EveryFragmentWrittenOnce ==
  \A sid \in GIds :
    (lastTeardown[2] = sid /\ tasks = {}) => WrittenFragments(sid) = AcceptedFragments

\* C18: when a flush attempt of a session's backup buffer has returned,
\* whether the store accepted the write or not, the buffer's accumulated
\* size is below the size threshold.
C18_FlushLeavesBufferBelowThreshold ==
  [][\A t \in tasks : \A ok \in BOOLEAN :
       (ChunkStoreDone(t, ok) \/ FlushDone(t, ok) \/ StopAfterFlush(t, ok)) =>
          audioBuffer'[t.sid].totalSize < SizeThreshold]_vars

\* a store write of the session's buffered fragments is pending
FlushPending(sid) ==
  \E t \in tasks :
    t.sid = sid /\ t.kind \in {"chunkStore", "speechFlush", "stopFlush", "disconnectFlush"}

\* C19: a backup buffer that holds a fragment is flushed as soon as its size
\* reaches the size threshold or its age reaches the time threshold, whether
\* or not another fragment arrives: at no time is such a buffer at or past a
\* threshold without a flush under way.
C19_FlushedAtThreshold ==
  \A sid \in GIds :
    (NeedsFlush(sid) /\ ~FlushPending(sid)) =>
       /\ audioBuffer[sid].totalSize < SizeThreshold
       /\ now - audioBuffer[sid].startTime < TimeThreshold

\* C20: a user transcript that arrives while the session's processing flag
\* is set changes nothing: it is not appended to the conversation, no event
\* is emitted and no generation is started; and at most one reply generation
\* is in flight per session.
C20_TranscriptDroppedWhileProcessing ==
  /\ [](\A sid \in ObjectIds : Cardinality(Generations(sid)) <= 1)
  /\ [][\A u \in Users, sid \in ObjectIds :
          (conversationStates[sid].processing /\ HandleUserTranscript(u, sid)) =>
             UNCHANGED <<conversationStates, emitted, sessionStreams, tasks>>]_vars

\* a reply is being generated for a session that has completed an earlier
\* turn: the flag is set and the generation is the session's only one
C20_GenerationInFlight ==
  \E sid \in ObjectIds :
    /\ conversationStates[sid].processing
    /\ Turns(conversationStates[sid].messages) >= 2
    /\ Cardinality(Generations(sid)) = 1

\* the messages the transcript events observed on the session's connection
\* should have left in the store, oldest first
ObservedMessages(w) ==
  [i \in 1..Len(proto[w].heard) |-> Msg(proto[w].heard[i], Utterance(i))]

\* C21: reading a session's messages returns the transcript events the
\* gateway observed on the session's connection, oldest first, each once and
\* in the order observed; as the observed sequence only grows at its end, a
\* stored message is never changed by a later append.
C21_MessagesInObservedOrder ==
  \A sid \in GIds :
    (sessions[sid] # 0 /\ ws[sessions[sid]].listeners # {}) =>
       getSessionMessages(sid) = ObservedMessages(sessions[sid])

\* C22: a teardown releases the registry and the backup buffer before the
\* relay: whenever the relay holds no session for an id, the registry's
\* entry for the id, its accumulated chunks and its backup buffer are gone.
C22_RelayReleasedAfterRegistryAndBuffer ==
  \A sid \in GIds :
    sessions[sid] = 0 =>
       /\ sessionToSocketMap[sid] = None
       /\ ~userAudioChunks[sid].present
       /\ ~audioBuffer[sid].present

\* the step rule of the recommendation, on the sum of the four scores
StepFrom(level, scoreSum) ==
  IF scoreSum >= 4 * 85 /\ level # "C2" THEN cefrOrder[IndexOf(level) + 2]
  ELSE IF scoreSum <= 4 * 45 /\ level # "A1" THEN cefrOrder[IndexOf(level)]
  ELSE level

\* C23: the recommended level carried by every completion event is the
\* session's original level moved one step up when the mean of the four
\* scores is at least 85 (and the level is not C2), one step down when the
\* mean is at most 45 (and the level is not A1), and the original level
\* otherwise, also when the CEFR analysis ran.
C23_RecommendedLevelIsOneStep ==
  \A p \in Procs :
    (calls[p].pc \in {"cleanup", "done"} /\ calls[p].result # "error"
       /\ calls[p].original \in CefrLevels) =>
      calls[p].metrics.recommendedLevel =
        StepFrom(calls[p].original, calls[p].metrics.scoreSum)

\* C24: completing a session that is not a placement test, or whose
\* transcript is empty, does not invoke the proficiency analyzer, so no
\* analysed level exists from which the persisted level or the user's
\* current level could be derived.
C24_AnalyzerOnlyForPlacementTests ==
  \A p \in Procs :
    (calls[p].pc \in {"analysed", "saved", "cleanup", "done"}
       /\ (~IsCefrTest(calls[p].sid) \/ calls[p].messages = <<>>)) =>
      /\ calls[p].outcome = "none"
      /\ ~calls[p].cefr.present

\* C25: every practice record in the user's stored document has a level on
\* the six-value scale, whatever level the scoring model answered.
C25_PersistedLevelOnScale ==
  \A i \in 1..Len(dbSessions) :
    dbSessions[i].level \in {"A1", "A2", "B1", "B2", "C1", "C2"}

\* a completion whose scoring model answered a level outside the scale has
\* been saved
C25_OffScaleAnswerSaved ==
  \E p \in Procs :
    /\ calls[p].pc = "done" /\ calls[p].result = "ok"
    /\ calls[p].cefr.present /\ calls[p].cefr.level \notin CefrLevels
    /\ \E i \in 1..Len(dbSessions) : dbSessions[i].id = calls[p].sid

\* C26: a placement result already stored for the language is replaced only
\* when a retake is explicitly allowed; a completion request carries no such
\* permission, so no step of a completion changes a stored result.
C26_StoredResultNotReplaced ==
  [][dbLanguageTest # NoEntry => dbLanguageTest' = dbLanguageTest]_vars

C28_UpstreamErrorRelayed ==
  [][\A w \in WsIds, code \in ErrorCodes :
       UpstreamError(w, code) =>
         /\ UNCHANGED <<ws, sessions, sessionToSocketMap, socketToSessionMap>>
         /\ code = "input_audio_buffer_commit_empty" => reply' = Quiet
         /\ (code # "input_audio_buffer_commit_empty"
               /\ sessionToSocketMap[ws[w].sid] # None) =>
              reply'[sessionToSocketMap[ws[w].sid]] = "realtime-error"]_vars

\* C29: an audio-chunk without a payload, without a session id or with empty
\* audio changes no session's status, registry entry, accumulated chunks or
\* backup buffer, writes nothing to the store and sends nothing upstream; the
\* first two are answered with an error to the caller.
C29_MalformedChunkChangesNothing ==
  [][LET Untouched ==
           /\ sentUp' = <<>>
           /\ UNCHANGED <<ws, sessions, sessionToSocketMap, socketToSessionMap,
                          userAudioChunks, speechStartTimes, audioBuffer, redisAudio,
                          tasks>>
     IN /\ \A k \in Sockets :
             AudioChunkWithoutPayload(k) =>
               reply'[k] = "invalid-payload" /\ Untouched
        /\ \A k \in Sockets, len \in ChunkLens :
             AudioChunk(k, None, len) =>
               reply'[k] = "missing-session-id" /\ Untouched
        /\ \A k \in Sockets, sid \in GIds :
             AudioChunk(k, sid, 0) => Untouched]_vars

\* a chunk without a session id has just been refused while a connected
\* session holds accumulated audio
C29_MalformedChunkRefused ==
  \E k \in Sockets, sid \in GIds :
    /\ reply[k] \in {"missing-session-id", "invalid-payload"}
    /\ sessions[sid] # 0 /\ ws[sessions[sid]].status = "connected"
    /\ userAudioChunks[sid].n > 0
    /\ audioBuffer[sid].present

\* C30: the record synthesized for an unknown session id starts no later
\* than the current time; it starts no earlier than the end time minus the
\* declared duration when that is a usable time, and at the end time minus
\* five minutes when it is not.
C30_SynthesizedStartWithinBounds ==
  [][\A p \in Procs, endedAt \in EndTimes, durationSeconds \in Durations :
       CompleteFindDated(p, endedAt, durationSeconds) =>
          /\ calls'[p].session.startedAt <= now
          /\ endedAt - durationSeconds * 1000 >= 0 =>
                calls'[p].session.startedAt >= endedAt - durationSeconds * 1000
          /\ endedAt - durationSeconds * 1000 < 0 =>
                calls'[p].session.startedAt = endedAt - 300000]_vars

\* C31: on each upstream speech-stopped event the client that holds the
\* session is notified and the backup buffer is flushed; exactly one
\* input-buffer commit goes upstream, at once when there is nothing to flush
\* and otherwise when the flush has returned, and none when the session is
\* no longer connected by then.
C31_OneCommitAfterFlush ==
  [][/\ \A w \in WsIds :
          SpeechStopped(w) =>
            /\ sessionToSocketMap[ws[w].sid] # None =>
                  reply'[sessionToSocketMap[ws[w].sid]] = "user-speech-stopped"
            /\ IF NeedsFlush(ws[w].sid)
               THEN /\ sentUp' = <<>>
                    /\ \E t \in tasks' : t.kind = "speechFlush" /\ t.sid = ws[w].sid
               ELSE sentUp' = IF IsConnected(ws[w].sid)
                              THEN <<"input_audio_buffer.commit">> ELSE <<>>
     /\ \A t \in tasks, ok \in BOOLEAN :
          (t.kind = "speechFlush" /\ FlushDone(t, ok)) =>
            sentUp' = IF IsConnected(t.sid)
                      THEN <<"input_audio_buffer.commit">> ELSE <<>>]_vars

\* C32: audio-chunk, interrupt and stop-practice act on a session only for
\* the connection that started it: issued by another connection they
\* forward nothing upstream, accumulate no audio, cancel no reply and
\* leave the relay's session and the registry entry in place.
C32_OnlyTheOwnerActs ==
  [][\A k \in Sockets, sid \in GIds :
       (sessionToSocketMap[sid] # None /\ sessionToSocketMap[sid] # k) =>
          /\ (\E len \in ChunkLens : AudioChunk(k, sid, len)) =>
                sentUp' = <<>> /\ UNCHANGED <<userAudioChunks, audioBuffer>>
          /\ HandleInterrupt(k, sid) => sentUp' = <<>> /\ UNCHANGED proto
          /\ (StopPracticeNow(k, sid) \/ StopPracticeBegin(k, sid)) =>
                UNCHANGED <<sessions, ws, sessionToSocketMap, tasks>>]_vars

\* C33: the two registry maps are mutually inverse after any sequence of
\* start, stop and disconnect from any connections: a session id is mapped
\* to a connection exactly when that connection is mapped to the id.
C33_RegistryMapsInverse ==
  \A sid \in GIds, k \in Sockets :
    sessionToSocketMap[sid] = k <=> socketToSessionMap[k] = sid

\* C34: when start-practice ends in error because the transient store could
\* not be initialized after the upstream connection was created, no relay
\* session, upstream connection or registry mapping is left for the id, so
\* the id can be started again.
C34_FailedStartLeavesNothing ==
  [][\A t \in tasks :
       (t.kind = "start" /\ StartContinue(t, FALSE)) =>
          /\ sessions'[t.sid] = 0
          /\ sessionToSocketMap'[t.sid] = None
          /\ \A w \in WsIds : ws'[w].sid # t.sid]_vars

\* C35: every event the relay emits for a session from the creation of its
\* upstream socket on reaches the client that holds the session: the open,
\* error and close of the socket are each answered with their notification.
C35_RelayEventsReachTheCaller ==
  [][\A w \in WsIds :
       (ws[w].sid # None /\ sessionToSocketMap[ws[w].sid] # None) =>
          /\ WsOpen(w) => reply'[sessionToSocketMap[ws[w].sid]] = "realtime-connected"
          /\ WsError(w) => reply'[sessionToSocketMap[ws[w].sid]] = "realtime-error"
          /\ WsClose(w) =>
                reply'[sessionToSocketMap[ws[w].sid]] = "realtime-disconnected"]_vars

\* C36: once the completion event of a session has been emitted and its
\* stream completed, no further event is emitted for the session id and
\* sessionStreams has no entry for it, also when a tutor reply was still
\* streaming at that time.
C36_NothingAfterCompletion ==
  \A sid \in ObjectIds :
    (\E i \in 1..Len(emitted[sid]) : emitted[sid][i] = "session.completed") =>
       /\ emitted[sid][Len(emitted[sid])] = "session.completed"
       /\ sid \notin sessionStreams

\* C37: a session is completed as a placement test exactly when its relay
\* session was started in test mode: for a session that is still live when
\* its completion is analysed, the mode chosen at start and the completion
\* pipeline's decision on the session id agree.
C37_ModeDecisionsAgree ==
  \A p \in Procs :
    (calls[p].pc \in {"analysed", "saved", "cleanup", "done"}
       /\ calls[p].sid \in GIds /\ sessions[calls[p].sid] # 0) =>
      (ws[sessions[calls[p].sid]].mode = "test"
         <=> (Includes(Chars(calls[p].sid), Chars("cefr-test"))
                \/ Includes(Chars(calls[p].sid), Chars("test"))))

\* C38: the save of a completion writes to the user's current-level entry
\* the level it persists on the completed practice record, for placement
\* tests and free practice alike.
C38_CurrentLevelIsRecordLevel ==
  [][\A p \in Procs :
       (calls[p].pc = "analysed" /\ CompleteSave(p, TRUE)) =>
          dbCurrentLevel'.level = dbSessions'[Len(dbSessions')].level]_vars

\* C39: every handleUserTranscript call that set the processing flag clears
\* it when it returns, after the stream ended as after streamResponse or the
\* stream threw; the flag is set only while a reply is being generated, and,
\* the stream terminating, a set flag is eventually cleared, so that a later
\* transcript of the session is accepted
C39_ProcessingFlagCleared ==
  /\ [][\A t \in tasks :
          ((StreamFailed(t) \/ StreamDone(t)) /\ conversationStates[t.sid].present)
            => ~conversationStates'[t.sid].processing]_vars
  /\ [](\A sid \in ObjectIds :
          conversationStates[sid].processing => Generations(sid) # {})
  /\ \A sid \in ObjectIds :
       conversationStates[sid].processing ~> ~conversationStates[sid].processing

\* a second transcript of the session was accepted, and the reply to it ended
\* without text, the flag cleared again
C39_LaterTranscriptAccepted ==
  \E sid \in ObjectIds :
    LET state == conversationStates[sid]
    IN /\ state.present /\ ~state.processing
       /\ Turns(state.messages) >= 2
       /\ state.messages[Len(state.messages)] = "user"
       /\ Generations(sid) = {}

====
